---- MODULE Spec2Model ----
(***************************************************************************)
(* State-machine model of tah_common.pipeline.                             *)
(*                                                                         *)
(* Two pipeline classes live in src/tah_common/pipeline.py:                *)
(*   - the live class Pipeline (lines 20-197), which caches by the         *)
(*     truthiness of a command's return value; specification Spec;         *)
(*   - the earlier class Pipeline kept in the module's trailing string     *)
(*     literal (lines 201-405), which caches by presence in the store and  *)
(*     records the configuration in the result file; SpecLegacy.           *)
(* Both share the variables below.  Further specifications over the same   *)
(* variables: SpecCycle (commands that require each other), SpecRepeat     *)
(* (the repetition loop of the earlier class), SpecCodec, SpecMerge and    *)
(* SpecAlias (util.py), SpecConfig (_get_configuration) and SpecCallback   *)
(* (callback.py, sampling/base.py).                                        *)
(***************************************************************************)
EXTENDS Integers, Sequences, FiniteSets, TLC

\* Longest list of requested commands given on the command line or preset.
MaxCmds == 2
\* Number of successive runs (processes) over the same filesystem.
MaxRuns == 2
\* Deepest chain of nested command implementations before the interpreter's
\* recursion limit ends the run.
MaxDepth == 3

VARIABLES
    argv0,        \* sys.argv[0]: the path of the script, "" when there is none
    output_arg,   \* the output_file argument of Pipeline's constructor
    deps,         \* per command of the program: the commands it requires, in order
    fnArg,        \* the value handed to a library function (codec, merge)
    fnOut,        \* what that function produced
    fnOp,         \* the library function applied last, "none" before any
    repetition,   \* index of the repetition loop of run (legacy class only)
    cbObj,        \* the attributes of a callback object
    cbLog,        \* the calls made so far to the callbacks a callback object wraps
    heap,         \* the dict objects handed to recursive_update, by identity
    fs,           \* kind of filesystem node at each path: "none", "dir", "file"
    disk,         \* JSON document held by the file at each path
    output_file,  \* self.output_file
    requested,    \* the command names asked for (argv, or preset self.commands)
    preset,       \* TRUE when self.commands was assigned before run()
    commands,     \* the list run() iterates over
    force,        \* self.force / arguments.force
    configuration,\* self.configuration (legacy class only)
    result,       \* self.result, the in-memory store
    impl,         \* value each command implementation returns, fixed at its first return
    pc,           \* position of run(): "init", "loop", "save", "done", "failed"
    i,            \* 1-based index of the for loop over commands
    stack,        \* frames of command implementations being executed by require
    retval,       \* value returned by the most recent require / _execute call
    error,        \* exception that ended the run, "none" otherwise
    calls,        \* per name: number of require / _execute calls made in this run
    invoked,      \* per command: number of implementation invocations in this run
    runNo,        \* number of runs started
    fs0,          \* fs when the current run started
    disk0,        \* disk when the current run started
    prevOk        \* TRUE when the previous run got through all its commands

vars == <<argv0, output_arg, deps, fnArg, fnOut, fnOp, repetition, cbObj, cbLog, heap,
          fs, disk, output_file, requested, preset, commands,
          force, configuration, result, impl, pc, i, stack, retval, error, calls, invoked, runNo,
          fs0, disk0, prevOk>>

----------------------------------------------------------------------------
\* Python values: a type tag and a payload (a sequence of small naturals).

PyNone == [t |-> "NoneType", v |-> <<>>]
PyStr(s) == [t |-> "str", v |-> s]
PyUnicode(s) == [t |-> "unicode", v |-> s]
PyInt(n) == [t |-> "int", v |-> <<n>>]
PyBool(b) == [t |-> "bool", v |-> <<IF b THEN 1 ELSE 0>>]
PyTuple(s) == [t |-> "tuple", v |-> s]
PyList(s) == [t |-> "list", v |-> s]
PyDict(s) == [t |-> "dict", v |-> s]

\* 'foo' as a sequence of letter codes
Foo == <<6, 15, 15>>

\* Values a command implementation may return.
Values == {PyNone, PyInt(0), PyStr(Foo)}

\* Marker for "no value yet" (not a Python value).
Unset == [t |-> "unset", v |-> <<>>]

\* No dict object has been handed to recursive_update.
NoObjects == <<>>

\* No callback object has been constructed.
NoCallback == [cls |-> "none"]

\* bool(x) in Python
Truthy(x) ==
    CASE x.t = "NoneType" -> FALSE
      [] x.t \in {"int", "bool"} -> x.v[1] # 0
      [] OTHER -> Len(x.v) > 0

----------------------------------------------------------------------------
\* JSON values and the encoder / decoder of json_dump / json_load for the
\* JSON-primitive Python types.

JNull == [t |-> "null", v |-> <<>>]
JString(s) == [t |-> "string", v |-> s]
JNumber(n) == [t |-> "number", v |-> <<n>>]
JArray(s) == [t |-> "array", v |-> s]
JObject(s) == [t |-> "object", v |-> s]

\* The files of the pipeline are read and written by key, so json_encode and
\* json_decode keep the members of an object as a mapping; the codec's
\* documents (Encode, Decode) keep them as the text has them, in order.

\* json.JSONEncoder on one value
json_encode(x) ==
    CASE x.t = "NoneType" -> JNull
      [] x.t = "bool" -> [t |-> IF x.v[1] = 1 THEN "true" ELSE "false", v |-> <<>>]
      [] x.t = "int" -> JNumber(x.v[1])
      [] x.t \in {"str", "unicode"} -> JString(x.v)
      [] x.t = "dict" -> JObject(x.v)
      [] OTHER -> JArray(x.v)

\* json.JSONDecoder on one value (Python 2: strings come back as unicode,
\* arrays as lists)
json_decode(j) ==
    CASE j.t = "null" -> PyNone
      [] j.t = "true" -> PyBool(TRUE)
      [] j.t = "false" -> PyBool(FALSE)
      [] j.t = "number" -> PyInt(j.v[1])
      [] j.t = "string" -> PyUnicode(j.v)
      [] j.t = "object" -> PyDict(j.v)
      [] OTHER -> PyList(j.v)

\* the empty dict {}
EmptyStore == [k \in {} |-> PyNone]

\* d[k] = v on a dict
Put(d, k, v) == [x \in (DOMAIN d) \cup {k} |-> IF x = k THEN v ELSE d[x]]

\* the document json.dump writes for a store
EncodeDoc(store) == [k \in DOMAIN store |-> json_encode(store[k])]

\* the store json.load builds from a document
DecodeDoc(doc) == [k \in DOMAIN doc |-> json_decode(doc[k])]

----------------------------------------------------------------------------
\* Filesystem: the result file's path and its parent directory.

OutDir == "out"
OutFile == "out/result.json"
NoPath == "None"
Paths == {OutDir, OutFile}

\* The largest configured repeat count.
MaxRepeat == 2

\* A result_file with the placeholder of the repetition number.
OutTemplate == "out/$.json"

\* '$' in result_file
Placeholder(t) == t = OutTemplate

\* str(n) of a repetition number
str(n) == <<"0", "1", "2", "3", "4", "5", "6", "7", "8", "9">>[n + 1]

\* result_file.replace('$', s)
Replace(t, s) == IF Placeholder(t) THEN "out/" \o s \o ".json" ELSE t

\* the result files of the repetitions
RepeatFiles == {Replace(OutTemplate, str(n)) : n \in 0..MaxRepeat}

\* the paths of a run with repetitions
RepeatPaths == {OutDir, OutFile, OutTemplate} \cup RepeatFiles

\* os.path.dirname; "" is the working directory, which exists
Dirname(p) == IF p \in RepeatPaths \ {OutDir} THEN OutDir ELSE ""

\* os.path.exists / os.path.isdir
Exists(f, p) == p = "" \/ f[p] # "none"
IsDir(f, p) == p = "" \/ f[p] = "dir"

\* os.makedirs(p): creates the missing ancestors, then the leaf; EEXIST when the
\* leaf exists, ENOTDIR when an ancestor is a file
makedirs(f, p) ==
    IF Exists(f, p) THEN [ok |-> FALSE, errno |-> "EEXIST", fs |-> f]
    ELSE IF ~Exists(f, Dirname(p))
         THEN [ok |-> TRUE, errno |-> "",
               fs |-> [q \in DOMAIN f |-> IF q \in {p, Dirname(p)} THEN "dir" ELSE f[q]]]
         ELSE IF IsDir(f, Dirname(p))
              THEN [ok |-> TRUE, errno |-> "", fs |-> [f EXCEPT ![p] = "dir"]]
              ELSE [ok |-> FALSE, errno |-> "ENOTDIR", fs |-> f]

\* util.mkdir_p(p): makedirs, swallowing EEXIST when p is a directory
mkdir_p(f, p) ==
    LET m == makedirs(f, p) IN
    IF m.ok \/ (m.errno = "EEXIST" /\ IsDir(f, p))
    THEN [ok |-> TRUE, fs |-> m.fs]
    ELSE [ok |-> FALSE, fs |-> m.fs]

\* util.json_dump(obj, f) to a file name: open(f, 'w') then json.dump
json_dump(f, d, p, doc) ==
    IF IsDir(f, p) \/ ~IsDir(f, Dirname(p))
    THEN [ok |-> FALSE, fs |-> f, disk |-> d]
    ELSE [ok |-> TRUE, fs |-> [f EXCEPT ![p] = "file"], disk |-> [d EXCEPT ![p] = doc]]

\* util.json_load(f) from a file name: open(f) then json.load
json_load(f, d, p) ==
    IF f[p] = "file" THEN [ok |-> TRUE, store |-> DecodeDoc(d[p])]
    ELSE [ok |-> FALSE, store |-> EmptyStore]

EmptyDoc == [k \in {} |-> JNull]
NoFiles == [p \in Paths |-> EmptyDoc]

----------------------------------------------------------------------------
\* The command registry of the example pipeline (src/examples/pipeline.py)
\* plus the built-in show.

Registry == {"foo", "step1", "step2", "show"}
UserCommands == Registry \ {"show"}
\* a name that is not a command
Names == Registry \cup {"bogus"}

\* available_commands: the names of the run_ methods
available_commands == Registry

\* the commands an implementation requires, in order, before it returns
Deps(c) == deps[c]

\* the example pipeline: run_step2 requires step1
ExampleDeps == [c \in Registry |-> IF c = "step2" THEN <<"step1">> ELSE <<>>]

\* the values the implementation of c can return at this point
Returns(c) ==
    IF c = "show" THEN {PyNone}
    ELSE IF impl[c] = Unset THEN Values ELSE {impl[c]}

\* lists of at most n names
Lists(n) == UNION {[1..k -> Names] : k \in 0..n}

\* iteration order of the available_commands dict: the order of a Python 2
\* dict is fixed by the hashes of its keys (CPython 2.7 does not randomise
\* string hashes unless asked to), and for these four names it is this one
DictOrders == {<<"foo", "step2", "step1", "show">>}

ZeroCount == [c \in Names |-> 0]

----------------------------------------------------------------------------
\* Initial filesystem contents: result documents left by an earlier program.

InitDocs ==
    {EmptyDoc, [bogus |-> JString(Foo)], [show |-> JString(Foo)]} \cup
    UNION {[S -> {JNull, JString(Foo)}] : S \in (SUBSET {"foo", "step1"}) \ {{}}}

InitFiles ==
    {[fs |-> [p \in Paths |-> "none"], disk |-> NoFiles],
     [fs |-> [p \in Paths |-> IF p = OutDir THEN "dir" ELSE "none"], disk |-> NoFiles],
     [fs |-> [p \in Paths |-> "dir"], disk |-> NoFiles]}
    \cup {[fs |-> [p \in Paths |-> IF p = OutDir THEN "dir" ELSE "file"],
           disk |-> [p \in Paths |-> IF p = OutFile THEN d ELSE EmptyDoc]] : d \in InitDocs}

\* State after Pipeline.__init__ (pipeline.py 27-33); commands may be assigned
\* before run() is called, which then skips parse_args (line 94).
Init ==
    /\ argv0 \in {"", "out/result.py"}
    /\ output_arg \in {NoPath, OutFile}
    /\ deps = ExampleDeps
    /\ repetition = 0
    /\ fnArg = PyNone
    /\ fnOut = PyNone
    /\ fnOp = "none"
    /\ cbObj = NoCallback
    /\ cbLog = <<>>
    /\ heap = NoObjects
    /\ \E f \in InitFiles : fs = f.fs /\ disk = f.disk
    /\ output_file = output_arg
    /\ requested \in Lists(MaxCmds)
    /\ preset \in BOOLEAN
    /\ force \in BOOLEAN
    /\ commands = <<>>
    /\ configuration = PyDict(<<>>)
    /\ result = EmptyStore
    /\ impl = [c \in UserCommands |-> Unset]
    /\ pc = "init"
    /\ i = 1
    /\ stack = <<>>
    /\ retval = Unset
    /\ error = "none"
    /\ calls = ZeroCount
    /\ invoked = ZeroCount
    /\ runNo = 0
    /\ fs0 = fs
    /\ disk0 = disk
    /\ prevOk = FALSE

\* ValidateChoices.__call__: every item must be an available command
ValidateChoices(values) == \A k \in DOMAIN values : values[k] \in available_commands

\* Variant: the result file is opened without testing that it exists.
setup_unchecked(f, d, p) ==
    IF p # NoPath THEN json_load(f, d, p)
    ELSE [ok |-> TRUE, store |-> EmptyStore]

\* Pipeline.setup: load the result file when it exists, else start empty
setup(f, d, p) ==
    IF p # NoPath /\ Exists(f, p) THEN json_load(f, d, p)
    ELSE [ok |-> TRUE, store |-> EmptyStore]

\* Variant: the exception is caught and the results are saved all the same.
FailThenSave(e) ==
    /\ pc' = "save"
    /\ error' = e
    /\ stack' = <<>>

\* Variant: the for loop of run catches the exception and goes round again.
FailAndRetry(e) ==
    /\ pc' = IF pc = "loop" THEN "loop" ELSE "failed"
    /\ error' = e
    /\ stack' = <<>>

\* The run ends with an exception; the frames of require unwind.
Fail(e) ==
    /\ pc' = "failed"
    /\ error' = e
    /\ stack' = <<>>

\* init_argument_parser, lines 54-61: the default of --output_file, which
\* parse_args (86-88) writes to self.output_file: the path given to the
\* constructor, else the path of the script with the extension .json in place
\* of its own, else None when there is no script
init_argument_parser(own, script) ==
    IF own # NoPath THEN own
    ELSE IF script = "out/result.py" THEN OutFile
    ELSE NoPath

\* Pipeline.run, lines 94-101: parse the arguments unless commands were preset,
\* pick the requested or all commands, set up the store.
run ==
    /\ pc = "init"
    /\ runNo' = runNo + 1
    /\ fs0' = fs
    /\ disk0' = disk
    /\ UNCHANGED <<argv0, output_arg, deps, fnArg, fnOut, fnOp, repetition, cbObj, cbLog, heap,
                   fs, disk, requested, preset, force, configuration, impl, retval,
                   calls, invoked, prevOk, i>>
    /\ IF ~preset /\ ~ValidateChoices(requested)
       THEN /\ Fail("AssertionError")
            /\ UNCHANGED <<output_file, commands, result>>
       ELSE /\ output_file' = IF preset THEN output_file
                              ELSE init_argument_parser(output_file, argv0)
            /\ \E order \in (IF requested = <<>> THEN DictOrders ELSE {requested}) :
                  commands' = order
            /\ LET s == setup(fs, disk, output_file') IN
               IF s.ok
               THEN /\ result' = s.store
                    /\ pc' = "loop"
                    /\ UNCHANGED <<stack, error>>
               ELSE /\ result' = result
                    /\ Fail("IOError")

\* The command implementation on top of the stack.
Top == stack[Len(stack)]

\* A require call is about to be made: by the for loop of run (line 106) or by
\* the implementation on top of the stack.
CanCall ==
    /\ pc = "loop"
    /\ IF stack = <<>> THEN i <= Len(commands) ELSE Top.k < Len(Deps(Top.cmd))

\* The name passed to that require call.
Callee == IF stack = <<>> THEN commands[i] ELSE Deps(Top.cmd)[Top.k + 1]

\* Variants of the cache test of line 128 with one operand wrong.
IsCachedNever(c) == FALSE
IsCachedInvertedForce(c) == c \in DOMAIN result /\ Truthy(result[c]) /\ force
IsCachedByPresence(c) == c \in DOMAIN result /\ ~force
IsCachedIgnoringForce(c) == c \in DOMAIN result /\ Truthy(result[c])

\* Pipeline.require, line 128 negated: the call is served from the store
IsCached(c) == c \in DOMAIN result /\ Truthy(result[c]) /\ ~force

\* require returns to its caller, whose frames are stk
ReturnTo(stk) ==
    IF stk = <<>>
    THEN /\ stack' = <<>>
         /\ i' = i + 1
         /\ pc' = IF i + 1 > Len(commands) THEN "save" ELSE "loop"
    ELSE /\ stack' = [stk EXCEPT ![Len(stk)].k = @ + 1]
         /\ i' = i
         /\ pc' = pc

\* Pipeline.require, lines 134-137: cache hit
require_cached ==
    /\ CanCall
    /\ IsCached(Callee)
    /\ calls' = [calls EXCEPT ![Callee] = @ + 1]
    /\ retval' = result[Callee]
    /\ ReturnTo(stack)
    /\ UNCHANGED <<argv0, output_arg, deps, fnArg, fnOut, fnOp, repetition, cbObj, cbLog, heap,
                   fs, disk, output_file, requested, preset, commands, force,
                   configuration, result, impl, error, invoked, runNo, fs0, disk0, prevOk>>

\* Pipeline.require, lines 128-131: cache miss, the implementation is invoked
require_execute ==
    /\ CanCall
    /\ ~IsCached(Callee)
    /\ Callee \in available_commands
    /\ Len(stack) < MaxDepth
    /\ calls' = [calls EXCEPT ![Callee] = @ + 1]
    /\ invoked' = [invoked EXCEPT ![Callee] = @ + 1]
    /\ stack' = Append(stack, [cmd |-> Callee, k |-> 0])
    /\ UNCHANGED <<argv0, output_arg, deps, fnArg, fnOut, fnOp, repetition, cbObj, cbLog, heap,
                   fs, disk, output_file, requested, preset, commands, force,
                   configuration, result, impl, pc, i, retval, error, runNo,
                   fs0, disk0, prevOk>>

\* Pipeline.require, line 131: available_commands[command] raises KeyError
require_unknown ==
    /\ CanCall
    /\ ~IsCached(Callee)
    /\ Callee \notin available_commands
    /\ calls' = [calls EXCEPT ![Callee] = @ + 1]
    /\ Fail("KeyError")
    /\ UNCHANGED <<argv0, output_arg, deps, fnArg, fnOut, fnOp, repetition, cbObj, cbLog, heap,
                   fs, disk, output_file, requested, preset, commands, force,
                   configuration, result, impl, i, retval, invoked, runNo,
                   fs0, disk0, prevOk>>

\* Variant: the returned value is handed on without being stored.
StoreDiscarded(store, c, v) == store

\* Variant: the returned value takes the place of every entry.
StoreOverAll(store, c, v) == [x \in (DOMAIN store) \cup {c} |-> v]

\* Variant: a returned None makes no entry.
StoreUnlessNone(store, c, v) == IF v # PyNone THEN Put(store, c, v) ELSE store

\* The entry require makes for a command whose implementation returned v
\* (line 131: self.result[command] = ...).
Store(store, c, v) == Put(store, c, v)

\* The implementation on top of the stack returns; require stores and returns
\* the value (lines 131-137).
command_return ==
    /\ pc = "loop"
    /\ stack # <<>>
    /\ Top.k = Len(Deps(Top.cmd))
    /\ \E v \in Returns(Top.cmd) :
          /\ result' = Store(result, Top.cmd, v)
          /\ retval' = v
          /\ impl' = IF Top.cmd \in UserCommands THEN [impl EXCEPT ![Top.cmd] = v]
                     ELSE impl
    /\ ReturnTo(SubSeq(stack, 1, Len(stack) - 1))
    /\ UNCHANGED <<argv0, output_arg, deps, fnArg, fnOut, fnOp, repetition, cbObj, cbLog, heap,
                   fs, disk, output_file, requested, preset, commands, force,
                   configuration, error, calls, invoked, runNo, fs0, disk0, prevOk>>

\* The implementation on top of the stack raises or is interrupted; nothing
\* catches the exception.
command_raise ==
    /\ pc = "loop"
    /\ stack # <<>>
    /\ Fail("CommandError")
    /\ UNCHANGED <<argv0, output_arg, deps, fnArg, fnOut, fnOp, repetition, cbObj, cbLog, heap,
                   fs, disk, output_file, requested, preset, commands, force,
                   configuration, result, impl, i, retval, calls, invoked, runNo,
                   fs0, disk0, prevOk>>

\* Variant: a default path stands in when no path is given.
output_path_defaulted(argument, own) ==
    IF argument # NoPath THEN argument ELSE IF own # NoPath THEN own ELSE OutFile

\* Pipeline.save_result, line 148: output_file = output_file or self.output_file
output_path(argument, own) == IF argument # NoPath THEN argument ELSE own

\* Pipeline.save_result (lines 148-153) as called by run (line 109)
save_result ==
    /\ pc = "save"
    /\ UNCHANGED <<argv0, output_arg, deps, fnArg, fnOut, fnOp, repetition, cbObj, cbLog, heap,
                   output_file, requested, preset, commands, force, configuration,
                   result, impl, i, retval, calls, invoked, runNo, fs0, disk0, prevOk>>
    /\ LET target == output_path(NoPath, output_file) IN
       IF target = NoPath
       THEN Fail("ValueError") /\ UNCHANGED <<fs, disk>>
       ELSE LET m == mkdir_p(fs, target) IN
            IF ~m.ok
            THEN Fail("OSError") /\ fs' = m.fs /\ disk' = disk
            ELSE LET d == json_dump(m.fs, disk, target, EncodeDoc(result)) IN
                 /\ fs' = d.fs
                 /\ disk' = d.disk
                 /\ IF d.ok
                    THEN pc' = "done" /\ UNCHANGED <<stack, error>>
                    ELSE Fail("IOError")

\* The program is started again on the same filesystem with the same
\* arguments: the constructor (27-33) sets self.output_file anew.
rerun ==
    /\ pc \in {"done", "failed"}
    /\ runNo < MaxRuns
    /\ pc' = "init"
    /\ prevOk' = (error \in {"none", "ValueError", "OSError", "IOError"} /\ commands # <<>>
                  /\ i > Len(commands))
    /\ output_file' = output_arg
    /\ commands' = <<>>
    /\ result' = EmptyStore
    /\ i' = 1
    /\ stack' = <<>>
    /\ retval' = Unset
    /\ error' = "none"
    /\ calls' = ZeroCount
    /\ invoked' = ZeroCount
    /\ UNCHANGED <<argv0, output_arg, deps, fnArg, fnOut, fnOp, repetition, cbObj, cbLog, heap,
                   fs, disk, requested, preset, force, configuration,
                   impl, runNo, fs0, disk0>>

Next ==
    \/ run
    \/ require_cached
    \/ require_execute
    \/ require_unknown
    \/ command_return
    \/ command_raise
    \/ save_result
    \/ rerun

Spec == Init /\ [][Next]_vars

----------------------------------------------------------------------------
\* A pipeline whose commands require each other: run_step1 is given the body
\* of run_step2 with the names exchanged, so step1 requires step2 and step2
\* requires step1.

CyclicDeps ==
    [c \in Registry |-> IF c = "step2" THEN <<"step1">>
                        ELSE IF c = "step1" THEN <<"step2">> ELSE <<>>]

InitCycle ==
    /\ argv0 \in {"", "out/result.py"}
    /\ output_arg \in {NoPath, OutFile}
    /\ deps = CyclicDeps
    /\ repetition = 0
    /\ fnArg = PyNone
    /\ fnOut = PyNone
    /\ fnOp = "none"
    /\ cbObj = NoCallback
    /\ cbLog = <<>>
    /\ heap = NoObjects
    /\ \E f \in InitFiles : fs = f.fs /\ disk = f.disk
    /\ output_file = output_arg
    /\ requested \in Lists(MaxCmds)
    /\ preset \in BOOLEAN
    /\ force \in BOOLEAN
    /\ commands = <<>>
    /\ configuration = PyDict(<<>>)
    /\ result = EmptyStore
    /\ impl = [c \in UserCommands |-> Unset]
    /\ pc = "init"
    /\ i = 1
    /\ stack = <<>>
    /\ retval = Unset
    /\ error = "none"
    /\ calls = ZeroCount
    /\ invoked = ZeroCount
    /\ runNo = 0
    /\ fs0 = fs
    /\ disk0 = disk
    /\ prevOk = FALSE

\* Pipeline.require, line 131, with the chain of nested calls at the
\* interpreter's recursion limit: the call raises RuntimeError.
recursion_limit ==
    /\ CanCall
    /\ ~IsCached(Callee)
    /\ Callee \in available_commands
    /\ Len(stack) = MaxDepth
    /\ calls' = [calls EXCEPT ![Callee] = @ + 1]
    /\ Fail("RuntimeError")
    /\ UNCHANGED <<argv0, output_arg, deps, fnArg, fnOut, fnOp, repetition, cbObj, cbLog, heap,
                   fs, disk, output_file, requested, preset,
                   commands, force, configuration, result, impl, i, retval, invoked,
                   runNo, fs0, disk0, prevOk>>

NextCycle ==
    \/ Next
    \/ recursion_limit

SpecCycle == InitCycle /\ [][NextCycle]_vars

----------------------------------------------------------------------------
\* The earlier Pipeline class (pipeline.py 201-405).  Its configuration is a
\* dict, modelled by the values of two of its keys: <<a, r>>, where a is the
\* value of a parameter and r = 1 when the key result_file is present.

Configurations == {PyDict(<<a, r>>) : a \in {1, 2}, r \in {0, 1}}

\* self.configuration.get('result_file', None)
ConfiguredResultFile(cfg) ==
    IF cfg.v[2] = 1 THEN OutFile ELSE IF cfg.v[2] = 2 THEN OutTemplate ELSE NoPath

\* _get_result_file(None), lines 298-307: arguments.out or the configured file
get_result_file(out, cfg) == IF out # NoPath THEN out ELSE ConfiguredResultFile(cfg)

\* _commands (397-404): the class as it is offers show alone; a subclass
\* that overrides the property offers its own commands beside it. None of
\* them names a dependency. The registry of the program is the domain of deps.
LegacyRegistries == {[c \in {"show"} |-> <<>>], [c \in Registry |-> <<>>]}
legacy_commands == DOMAIN deps

\* _load_result, lines 284-294: the previous result file or {}, with the
\* configuration entry set to the current configuration
load_result(f, d, p, cfg) ==
    LET r == IF Exists(f, p) THEN json_load(f, d, p)
             ELSE [ok |-> TRUE, store |-> EmptyStore] IN
    [ok |-> r.ok, store |-> IF r.ok THEN Put(r.store, "configuration", cfg) ELSE r.store]

\* _execute, line 378: the command has already been evaluated
legacy_cached(c) == c \in DOMAIN result /\ ~force

\* _execute, lines 390-391: the entry made for a value returned by c
legacy_store(store, c, v) == IF v # PyNone THEN Put(store, c, v) ELSE store

InitLegacy ==
    /\ argv0 = ""
    /\ output_arg = NoPath
    /\ deps \in LegacyRegistries
    /\ repetition = 0
    /\ fnArg = PyNone
    /\ fnOut = PyNone
    /\ fnOp = "none"
    /\ cbObj = NoCallback
    /\ cbLog = <<>>
    /\ heap = NoObjects
    /\ \E parent \in {"none", "dir"} :
          fs = [p \in Paths |-> IF p = OutDir THEN parent ELSE "none"]
    /\ disk = NoFiles
    /\ output_file \in {NoPath, OutFile}
    /\ requested \in Lists(MaxCmds) \ {<<>>}
    /\ preset = FALSE
    /\ force \in BOOLEAN
    /\ commands = <<>>
    /\ configuration \in Configurations
    /\ result = EmptyStore
    /\ impl = [c \in UserCommands |-> Unset]
    /\ pc = "init"
    /\ i = 1
    /\ stack = <<>>
    /\ retval = Unset
    /\ error = "none"
    /\ calls = ZeroCount
    /\ invoked = ZeroCount
    /\ runNo = 0
    /\ fs0 = fs
    /\ disk0 = disk
    /\ prevOk = FALSE

\* run, lines 332-342 without repetition: parse the arguments, load the result
legacy_run ==
    /\ pc = "init"
    /\ runNo' = runNo + 1
    /\ fs0' = fs
    /\ disk0' = disk
    /\ commands' = requested
    /\ UNCHANGED <<argv0, output_arg, deps, fnArg, fnOut, fnOp, repetition, cbObj, cbLog, heap,
                   fs, disk, output_file, requested, preset, force, configuration,
                   impl, retval, calls, invoked, prevOk, i>>
    /\ LET p == get_result_file(output_file, configuration) IN
       IF p = NoPath
       THEN Fail("ValueError") /\ result' = result
       ELSE LET r == load_result(fs, disk, p, configuration) IN
            IF r.ok
            THEN /\ result' = r.store
                 /\ pc' = "loop"
                 /\ UNCHANGED <<stack, error>>
            ELSE Fail("IOError") /\ result' = result

\* the for loop of run moves to the next command (lines 344-349)
legacy_advance ==
    /\ i' = i + 1
    /\ pc' = IF i + 1 > Len(commands) THEN "save" ELSE "loop"

\* _execute, lines 372-375: the command is not recognised
execute_unknown ==
    /\ pc = "loop"
    /\ commands[i] \notin legacy_commands
    /\ calls' = [calls EXCEPT ![commands[i]] = @ + 1]
    /\ Fail("KeyError")
    /\ UNCHANGED <<argv0, output_arg, deps, fnArg, fnOut, fnOp, repetition, cbObj, cbLog, heap,
                   fs, disk, output_file, requested, preset, commands, force,
                   configuration, result, impl, i, retval, invoked, runNo,
                   fs0, disk0, prevOk>>

\* _execute, lines 378-380: the stored value is returned
execute_cached ==
    /\ pc = "loop"
    /\ commands[i] \in legacy_commands
    /\ legacy_cached(commands[i])
    /\ calls' = [calls EXCEPT ![commands[i]] = @ + 1]
    /\ retval' = result[commands[i]]
    /\ legacy_advance
    /\ UNCHANGED <<argv0, output_arg, deps, fnArg, fnOut, fnOp, repetition, cbObj, cbLog, heap,
                   fs, disk, output_file, requested, preset, commands, force,
                   configuration, result, impl, stack, error, invoked, runNo,
                   fs0, disk0, prevOk>>

\* _execute, lines 385-392: the command is executed and returns
execute_command ==
    /\ pc = "loop"
    /\ commands[i] \in legacy_commands
    /\ ~legacy_cached(commands[i])
    /\ calls' = [calls EXCEPT ![commands[i]] = @ + 1]
    /\ invoked' = [invoked EXCEPT ![commands[i]] = @ + 1]
    /\ \E v \in Returns(commands[i]) :
          /\ result' = legacy_store(result, commands[i], v)
          /\ retval' = v
          /\ impl' = IF commands[i] \in UserCommands
                     THEN [impl EXCEPT ![commands[i]] = v] ELSE impl
    /\ legacy_advance
    /\ UNCHANGED <<argv0, output_arg, deps, fnArg, fnOut, fnOp, repetition, cbObj, cbLog, heap,
                   fs, disk, output_file, requested, preset, commands, force,
                   configuration, stack, error, runNo, fs0, disk0, prevOk>>

\* _execute, line 386: the command raises
execute_raise ==
    /\ pc = "loop"
    /\ commands[i] \in legacy_commands
    /\ ~legacy_cached(commands[i])
    /\ calls' = [calls EXCEPT ![commands[i]] = @ + 1]
    /\ invoked' = [invoked EXCEPT ![commands[i]] = @ + 1]
    /\ Fail("CommandError")
    /\ UNCHANGED <<argv0, output_arg, deps, fnArg, fnOut, fnOp, repetition, cbObj, cbLog, heap,
                   fs, disk, output_file, requested, preset, commands, force,
                   configuration, result, impl, i, retval, runNo, fs0, disk0, prevOk>>

\* _dump_result (lines 318-325) and the clearing of the result (line 351)
dump_result ==
    /\ pc = "save"
    /\ UNCHANGED <<argv0, output_arg, deps, fnArg, fnOut, fnOp, repetition, cbObj, cbLog, heap,
                   output_file, requested, preset, commands, force, configuration,
                   impl, i, retval, calls, invoked, runNo, fs0, disk0, prevOk>>
    /\ LET p == get_result_file(output_file, configuration)
           m == IF Dirname(p) # "" THEN mkdir_p(fs, Dirname(p)) ELSE [ok |-> TRUE, fs |-> fs]
       IN
       IF ~m.ok
       THEN Fail("OSError") /\ fs' = m.fs /\ UNCHANGED <<disk, result>>
       ELSE LET d == json_dump(m.fs, disk, p, EncodeDoc(result)) IN
            /\ fs' = d.fs
            /\ disk' = d.disk
            /\ IF d.ok
               THEN pc' = "done" /\ result' = EmptyStore /\ UNCHANGED <<stack, error>>
               ELSE Fail("IOError") /\ result' = result

\* The program is started again on the same filesystem, with the same or an
\* edited configuration.
legacy_rerun ==
    /\ pc \in {"done", "failed"}
    /\ runNo < MaxRuns
    /\ pc' = "init"
    /\ prevOk' = (pc = "done")
    /\ configuration' \in Configurations
    /\ commands' = <<>>
    /\ result' = EmptyStore
    /\ i' = 1
    /\ stack' = <<>>
    /\ retval' = Unset
    /\ error' = "none"
    /\ calls' = ZeroCount
    /\ invoked' = ZeroCount
    /\ UNCHANGED <<argv0, output_arg, deps, fnArg, fnOut, fnOp, repetition, cbObj, cbLog, heap,
                   fs, disk, output_file, requested, preset, force, impl, runNo,
                   fs0, disk0>>

NextLegacy ==
    \/ legacy_run
    \/ execute_unknown
    \/ execute_cached
    \/ execute_command
    \/ execute_raise
    \/ dump_result
    \/ legacy_rerun

SpecLegacy == InitLegacy /\ [][NextLegacy]_vars

----------------------------------------------------------------------------
\* The numeric codec of util.py: NumpyEncoder, StringEncoder and
\* json_numpy_obj_hook.  Text is a sequence of character codes: 1..26 are the
\* letters a..z, 100 + n is the base64 digit n outside a..z (100..125 the
\* letters A..Z, 152..161 the digits 0..9, 162 "+", 163 "/"), Pad is "=",
\* 165..169 are "<", ">", "|", "_" and "?". In a byte string 1000 + b is the
\* byte b >= 128; in unicode text 2000 + c is the character U+c, c >= 128.
\* Other characters are not among the texts of the model.

\* Largest extent of an array along one axis.
MaxDim == 2
\* Deepest nesting of lists and mappings in a value handed to the codec.
MaxNest == 2

Pad == 164
B64Char(n) == IF n \in 26..51 THEN n - 25 ELSE 100 + n
B64Val(ch) == IF ch \in 1..26 THEN ch + 25 ELSE ch - 100
IsB64Char(ch) == ch \in (1..26) \cup (100..125) \cup (152..163)

\* base64.b64encode on a sequence of bytes: every group of three bytes is
\* four digits of six bits, and the last group is filled up with padding
b64encode(bytes) ==
    LET n == Len(bytes)
        byte(k) == IF k <= n THEN bytes[k] ELSE 0
        group(g) == byte(3 * g - 2) * 65536 + byte(3 * g - 1) * 256 + byte(3 * g)
        digit(j) == (group((j - 1) \div 4 + 1) \div (64 ^ (3 - ((j - 1) % 4)))) % 64
        groups == (n + 2) \div 3
        pads == (3 - (n % 3)) % 3
    IN  [j \in 1..(4 * groups) |->
            IF j > 4 * groups - pads THEN Pad ELSE B64Char(digit(j))]

\* base64.b64decode on a text (util.py 132), which is binascii.a2b_base64:
\* the bytes, or ok = FALSE for the TypeError of incorrect padding.
\* quad_pos(n) is the place of character n in its group of four digits. A
\* character outside the alphabet is skipped; a padding character is skipped
\* unless it stands where padding ends a group (after three digits, or after
\* two with another padding character next), where it ends the input. The
\* digits read until then are six bits each, written out as bytes of eight;
\* bits left over at the end of a text that no padding ended are the error.
b64decode(text) ==
    LET quad_pos(n) == Cardinality({k \in 1..(n - 1) : IsB64Char(text[k])}) % 4
        find_valid(n) ==
            LET later == {k \in (n + 1)..Len(text) : IsB64Char(text[k]) \/ text[k] = Pad}
            IN  IF later = {} THEN 0
                ELSE text[CHOOSE k \in later : \A m \in later : k <= m]
        ends == {n \in DOMAIN text :
                    /\ text[n] = Pad
                    /\ ~(quad_pos(n) < 2 \/ (quad_pos(n) = 2 /\ find_valid(n) # Pad))}
        end == IF ends = {} THEN Len(text) + 1
               ELSE CHOOSE n \in ends : \A m \in ends : n <= m
        digits == SelectSeq(SubSeq(text, 1, end - 1), IsB64Char)
        leftbits == IF ends = {} THEN (6 * Len(digits)) % 8 ELSE 0
        bin(k) == LET d == (8 * (k - 1)) \div 6 + 1
                      shift == 4 - ((8 * (k - 1)) % 6)
                  IN  ((B64Val(digits[d]) * 64 + B64Val(digits[d + 1])) \div (2 ^ shift)) % 256
    IN  IF leftbits # 0 THEN [ok |-> FALSE, bytes |-> <<>>]
        ELSE [ok |-> TRUE, bytes |-> [k \in 1..((6 * Len(digits)) \div 8) |-> bin(k)]]

\* An element type (numpy.dtype) is its kind ("b" bool, "i" and "u" signed
\* and unsigned integers, "f" floats, "c" complex numbers, "M" and "m" dates
\* and time spans, "O" objects, "S" byte strings, "U" unicode strings, "V"
\* raw bytes), the size of an element in bytes, and its byte order: "=" the
\* order of the machine (little-endian), ">" big-endian, "|" where the order
\* makes no difference.
np_dtype(kind, itemsize, byteorder) ==
    [kind |-> kind, itemsize |-> itemsize, byteorder |-> byteorder]

\* The element types of the arrays handed to the codec: uint8, int16,
\* big-endian int16 and float64.
Dtypes ==
    {np_dtype("u", 1, "|"), np_dtype("i", 2, "="), np_dtype("i", 2, ">"),
     np_dtype("f", 8, "=")}

\* str(obj.dtype): the name of a numeric type in the machine's byte order
\* (the kind's name and the bits of an element), the array-protocol string
\* of a type in another order or of a string type
dtype_str(dt) ==
    LET RECURSIVE digits(_)
        digits(n) == IF n < 10 THEN <<152 + n>>
                     ELSE digits(n \div 10) \o <<152 + (n % 10)>>
        name == CASE dt.kind = "b" -> <<2, 15, 15, 12>>
                  [] dt.kind = "i" -> <<9, 14, 20>>
                  [] dt.kind = "u" -> <<21, 9, 14, 20>>
                  [] dt.kind = "f" -> <<6, 12, 15, 1, 20>>
                  [] dt.kind = "c" -> <<3, 15, 13, 16, 12, 5, 24>>
                  [] dt.kind = "M" -> <<4, 1, 20, 5, 20, 9, 13, 5, 158, 156>>
                  [] dt.kind = "m" -> <<20, 9, 13, 5, 4, 5, 12, 20, 1, 158, 156>>
                  [] dt.kind = "O" -> <<15, 2, 10, 5, 3, 20>>
        char == CASE dt.kind = "i" -> <<9>>
                  [] dt.kind = "u" -> <<21>>
                  [] dt.kind = "f" -> <<6>>
                  [] dt.kind = "c" -> <<3>>
                  [] dt.kind = "M" -> <<112>>
                  [] dt.kind = "m" -> <<13>>
                  [] dt.kind = "S" -> <<118>>
                  [] dt.kind = "U" -> <<120>>
                  [] dt.kind = "V" -> <<121>>
    IN  CASE dt.kind \in {"S", "V"} -> <<167>> \o char \o digits(dt.itemsize)
          [] dt.kind = "U" ->
                (IF dt.byteorder = ">" THEN <<166>> ELSE <<165>>)
                    \o char \o digits(dt.itemsize \div 4)
          [] dt.kind \notin {"S", "V", "U"} /\ dt.byteorder = ">" ->
                <<166>> \o char \o digits(dt.itemsize)
          [] dt.kind \in {"b", "O", "M", "m"} /\ dt.byteorder # ">" -> name
          [] dt.kind \in {"i", "u", "f", "c"} /\ dt.byteorder # ">" ->
                name \o digits(8 * dt.itemsize)

\* np.dtype(text) on a 64-bit Linux build of numpy 1.7 to 1.16, as
\* PyArray_DescrConverter reads a string. The empty text is refused. A
\* leading "<", ">", "=" or "|" sets the byte order. What remains is a date
\* type (M8, m8, datetime64, timedelta64; anything after these would be a
\* unit in brackets, which the texts of the model cannot spell), or one
\* character code, or a kind followed by a size that strtol reads to the end
\* of the text ("+" may stand before the digits): S, a, U and V take any
\* size, the other kinds the sizes numpy has a type for. A text that is none
\* of these is looked up, whole, among the names of numpy.typeDict. Where
\* all that fails the TypeError "data type not understood" is raised
\* (ok = FALSE).
\* No value is given for a text that begins with a digit (a repeat count: a
\* structured type), for a size of more than eight digits, or for O4, which
\* only some versions accept.
dtype_parse(text) ==
    LET typechars ==
            {<<112>>} \X {<<"M", 8>>} \cup
            {<<114>>} \X {<<"O", 8>>} \cup
            {<<118>>, <<1>>} \X {<<"S", 0>>} \cup
            {<<3>>} \X {<<"S", 1>>} \cup
            {<<120>>} \X {<<"U", 0>>} \cup
            {<<121>>} \X {<<"V", 0>>} \cup
            {<<169>>} \X {<<"b", 1>>} \cup
            {<<105>>} \X {<<"c", 8>>} \cup
            {<<103>>} \X {<<"c", 16>>} \cup
            {<<106>>} \X {<<"c", 32>>} \cup
            {<<5>>} \X {<<"f", 2>>} \cup
            {<<6>>} \X {<<"f", 4>>} \cup
            {<<4>>} \X {<<"f", 8>>} \cup
            {<<7>>} \X {<<"f", 16>>} \cup
            {<<2>>} \X {<<"i", 1>>} \cup
            {<<8>>} \X {<<"i", 2>>} \cup
            {<<9>>} \X {<<"i", 4>>} \cup
            {<<12>>, <<17>>, <<16>>} \X {<<"i", 8>>} \cup
            {<<13>>} \X {<<"m", 8>>} \cup
            {<<101>>} \X {<<"u", 1>>} \cup
            {<<107>>} \X {<<"u", 2>>} \cup
            {<<108>>} \X {<<"u", 4>>} \cup
            {<<111>>, <<116>>, <<115>>} \X {<<"u", 8>>}
        typeDict ==
            {<<2, 15, 15, 12>>, <<2, 15, 15, 12, 160>>, <<2, 15, 15, 12, 168>>, <<101, 15, 15, 12>>} \X {<<"b", 1>>} \cup
            {<<9, 14, 20, 160>>, <<108, 14, 20, 160>>, <<2, 25, 20, 5>>} \X {<<"i", 1>>} \cup
            {<<21, 9, 14, 20, 160>>, <<120, 108, 14, 20, 160>>, <<21, 2, 25, 20, 5>>} \X {<<"u", 1>>} \cup
            {<<9, 14, 20, 153, 158>>, <<108, 14, 20, 153, 158>>, <<19, 8, 15, 18, 20>>} \X {<<"i", 2>>} \cup
            {<<21, 9, 14, 20, 153, 158>>, <<120, 108, 14, 20, 153, 158>>, <<21, 19, 8, 15, 18, 20>>} \X {<<"u", 2>>} \cup
            {<<9, 14, 20, 155, 154>>, <<108, 14, 20, 155, 154>>, <<9, 14, 20, 3>>} \X {<<"i", 4>>} \cup
            {<<21, 9, 14, 20, 155, 154>>, <<120, 108, 14, 20, 155, 154>>, <<21, 9, 14, 20, 3>>} \X {<<"u", 4>>} \cup
            {<<9, 14, 20, 158, 156>>, <<108, 14, 20, 158, 156>>, <<9, 14, 20>>, <<9, 14, 20, 168>>, <<9, 14, 20, 16>>, <<9, 14, 20, 152>>, <<12, 15, 14, 7, 12, 15, 14, 7>>} \X {<<"i", 8>>} \cup
            {<<21, 9, 14, 20, 158, 156>>, <<120, 108, 14, 20, 158, 156>>, <<21, 9, 14, 20>>, <<21, 9, 14, 20, 16>>, <<21, 9, 14, 20, 152>>, <<21, 12, 15, 14, 7, 12, 15, 14, 7>>} \X {<<"u", 8>>} \cup
            {<<6, 12, 15, 1, 20, 153, 158>>, <<105, 12, 15, 1, 20, 153, 158>>, <<8, 1, 12, 6>>} \X {<<"f", 2>>} \cup
            {<<6, 12, 15, 1, 20, 155, 154>>, <<105, 12, 15, 1, 20, 155, 154>>, <<19, 9, 14, 7, 12, 5>>} \X {<<"f", 4>>} \cup
            {<<6, 12, 15, 1, 20, 158, 156>>, <<105, 12, 15, 1, 20, 158, 156>>, <<4, 15, 21, 2, 12, 5>>, <<6, 12, 15, 1, 20>>, <<6, 12, 15, 1, 20, 168>>} \X {<<"f", 8>>} \cup
            {<<6, 12, 15, 1, 20, 153, 154, 160>>, <<105, 12, 15, 1, 20, 153, 154, 160>>, <<12, 15, 14, 7, 4, 15, 21, 2, 12, 5>>, <<12, 15, 14, 7, 6, 12, 15, 1, 20>>} \X {<<"f", 16>>} \cup
            {<<3, 15, 13, 16, 12, 5, 24, 158, 156>>, <<102, 15, 13, 16, 12, 5, 24, 155, 154>>, <<3, 19, 9, 14, 7, 12, 5>>, <<19, 9, 14, 7, 12, 5, 3, 15, 13, 16, 12, 5, 24>>} \X {<<"c", 8>>} \cup
            {<<3, 15, 13, 16, 12, 5, 24, 153, 154, 160>>, <<102, 15, 13, 16, 12, 5, 24, 158, 156>>, <<3, 4, 15, 21, 2, 12, 5>>, <<3, 6, 12, 15, 1, 20>>, <<3, 15, 13, 16, 12, 5, 24>>, <<3, 15, 13, 16, 12, 5, 24, 168>>} \X {<<"c", 16>>} \cup
            {<<3, 15, 13, 16, 12, 5, 24, 154, 157, 158>>, <<102, 15, 13, 16, 12, 5, 24, 153, 154, 160>>, <<3, 12, 15, 14, 7, 4, 15, 21, 2, 12, 5>>, <<3, 12, 15, 14, 7, 6, 12, 15, 1, 20>>, <<12, 15, 14, 7, 3, 15, 13, 16, 12, 5, 24>>} \X {<<"c", 32>>} \cup
            {<<15, 2, 10, 5, 3, 20>>, <<15, 2, 10, 5, 3, 20, 168>>, <<15, 2, 10, 5, 3, 20, 152>>, <<114, 2, 10, 5, 3, 20, 152>>} \X {<<"O", 8>>} \cup
            {<<19, 20, 18, 9, 14, 7>>, <<19, 20, 18, 9, 14, 7, 168>>, <<19, 20, 18, 9, 14, 7, 152>>, <<118, 20, 18, 9, 14, 7, 152>>, <<19, 20, 18>>, <<19, 20, 18, 168>>, <<2, 25, 20, 5, 19, 168>>} \X {<<"S", 0>>} \cup
            {<<21, 14, 9, 3, 15, 4, 5>>, <<21, 14, 9, 3, 15, 4, 5, 168>>, <<21, 14, 9, 3, 15, 4, 5, 152>>, <<120, 14, 9, 3, 15, 4, 5, 152>>} \X {<<"U", 0>>} \cup
            {<<22, 15, 9, 4>>, <<22, 15, 9, 4, 152>>, <<121, 15, 9, 4, 152>>} \X {<<"V", 0>>} \cup
            {<<103, 1, 20, 5, 20, 9, 13, 5, 158, 156>>} \X {<<"M", 8>>} \cup
            {<<119, 9, 13, 5, 4, 5, 12, 20, 1, 158, 156>>} \X {<<"m", 8>>}
        TypestrConvert ==
            {<<2, "b", 1>>, <<114, "O", 8>>, <<112, "M", 8>>, <<13, "m", 8>>}
                \cup {<<9, "i", n>> : n \in {1, 2, 4, 8}}
                \cup {<<21, "u", n>> : n \in {1, 2, 4, 8}}
                \cup {<<6, "f", n>> : n \in {2, 4, 8, 16}}
                \cup {<<3, "c", n>> : n \in {8, 16, 32}}
        fail == [ok |-> FALSE, dtype |-> np_dtype("V", 0, "|")]
        found(e) ==
            [ok |-> TRUE,
             dtype |-> np_dtype(e[1], e[2],
                                IF e[1] \in {"b", "S", "V", "O"} \/ e[2] = 1
                                THEN "|" ELSE "=")]
        lookup(table, key) ==
            IF \E e \in table : e[1] = key
            THEN found((CHOOSE e \in table : e[1] = key)[2])
            ELSE fail
        IsDigit(ch) == ch \in 152..161
        prefixed == text[1] \in 164..167
        commastring == IsDigit(text[1]) \/ (Len(text) > 1 /\ prefixed /\ IsDigit(text[2]))
        type == IF prefixed THEN Tail(text) ELSE text
        endian(r) ==
            IF r.ok /\ text[1] = 166 /\ r.dtype.byteorder # "|"
            THEN [ok |-> TRUE, dtype |-> np_dtype(r.dtype.kind, r.dtype.itemsize, ">")]
            ELSE r
        startswith(p) == Len(type) >= Len(p) /\ SubSeq(type, 1, Len(p)) = p
        datetime == \/ startswith(<<112, 160>>) \/ startswith(<<13, 160>>)
                    \/ startswith(<<4, 1, 20, 5, 20, 9, 13, 5, 158, 156>>) \/ startswith(<<20, 9, 13, 5, 4, 5, 12, 20, 1, 158, 156>>)
        number == IF Len(type) > 1 /\ type[2] = 162 THEN SubSeq(type, 3, Len(type))
                  ELSE Tail(type)
        sized == Len(type) > 1 /\ number # <<>> /\ \A n \in DOMAIN number : IsDigit(number[n])
        zeros == Cardinality({n \in DOMAIN number : \A m \in 1..n : number[m] = 152})
        RECURSIVE strtol(_, _)
        strtol(n, acc) == IF n > Len(number) THEN acc
                          ELSE strtol(n + 1, 10 * acc + number[n] - 152)
        elsize == strtol(1, 0)
        plain == text # <<>> /\ ~commastring /\ type # <<>> /\ ~datetime
    IN  CASE text = <<>> -> fail
          [] text # <<>> /\ ~commastring /\ type = <<>> -> fail
          [] text # <<>> /\ ~commastring /\ type # <<>> /\ datetime ->
                IF type \in {<<112, 160>>, <<4, 1, 20, 5, 20, 9, 13, 5, 158, 156>>} THEN endian(found(<<"M", 8>>))
                ELSE IF type \in {<<13, 160>>, <<20, 9, 13, 5, 4, 5, 12, 20, 1, 158, 156>>} THEN endian(found(<<"m", 8>>))
                ELSE fail
          [] plain /\ Len(type) = 1 ->
                IF \E e \in typechars : e[1] = type THEN endian(lookup(typechars, type))
                ELSE lookup(typeDict, text)
          [] plain /\ Len(type) > 1 /\ ~sized -> lookup(typeDict, text)
          [] plain /\ sized /\ Len(number) - zeros <= 8
                   /\ ~(type[1] = 114 /\ elsize = 4) ->
                IF type[1] \in {118, 1} THEN found(<<"S", elsize>>)
                ELSE IF type[1] = 120 THEN endian(found(<<"U", 4 * elsize>>))
                ELSE IF type[1] = 121 THEN found(<<"V", elsize>>)
                ELSE IF \E e \in TypestrConvert : e[1] = type[1] /\ e[3] = elsize
                THEN LET e == CHOOSE e \in TypestrConvert : e[1] = type[1] /\ e[3] = elsize
                     IN  endian(found(<<e[2], e[3]>>))
                ELSE lookup(typeDict, text)

\* The bytes of one element and back (two's complement; the low byte first
\* unless the type is big-endian). An element of a type other than the 8-
\* and 16-bit integers is written as the bytes of its pattern.
tobytes(dt, x) ==
    CASE dt.kind \in {"i", "u"} /\ dt.itemsize = 1 -> <<IF x < 0 THEN x + 256 ELSE x>>
      [] dt.kind \in {"i", "u"} /\ dt.itemsize = 2 ->
            LET u == IF x < 0 THEN x + 65536 ELSE x IN
            IF dt.byteorder = ">" THEN <<u \div 256, u % 256>> ELSE <<u % 256, u \div 256>>
      [] OTHER -> x
frombytes(dt, b) ==
    CASE dt.kind \in {"i", "u"} /\ dt.itemsize = 1 ->
            IF dt.kind = "i" /\ b[1] >= 128 THEN b[1] - 256 ELSE b[1]
      [] dt.kind \in {"i", "u"} /\ dt.itemsize = 2 ->
            LET u == IF dt.byteorder = ">" THEN 256 * b[1] + b[2] ELSE b[1] + 256 * b[2] IN
            IF dt.kind = "i" /\ u >= 32768 THEN u - 65536 ELSE u
      [] OTHER -> b

\* the bytes of a sequence of elements, and back
RECURSIVE ElementsToBytes(_, _)
ElementsToBytes(dt, xs) ==
    IF xs = <<>> THEN <<>>
    ELSE tobytes(dt, Head(xs)) \o ElementsToBytes(dt, Tail(xs))
BytesToElements(dt, b) ==
    [k \in 1..(Len(b) \div dt.itemsize) |->
        frombytes(dt, SubSeq(b, (k - 1) * dt.itemsize + 1, k * dt.itemsize))]

\* numpy arrays: element type, shape, the elements as they lie in the array's
\* memory, and the layout of that memory: "C" row-major, "T" the transpose of
\* a row-major array (column-major), "S" every second element of a buffer.
ndarray(dt, sh, base, layout) ==
    [f \in {"dtype", "shape", "base", "layout"} |->
        CASE f = "dtype" -> dt [] f = "shape" -> sh [] f = "base" -> base [] OTHER -> layout]
PyArray(a) == [t |-> "ndarray", v |-> a]

\* number of elements of a shape
RECURSIVE Size(_)
Size(sh) == IF sh = <<>> THEN 1 ELSE Head(sh) * Size(Tail(sh))

\* position in memory of the k-th element in row-major order
Offset(a, k) ==
    IF a.layout = "S" THEN 2 * k - 1
    ELSE IF a.layout = "T"
    THEN ((k - 1) % a.shape[2]) * a.shape[1] + ((k - 1) \div a.shape[2]) + 1
    ELSE k

\* the elements in row-major order
Elements(a) == [k \in 1..Size(a.shape) |-> a.base[Offset(a, k)]]

\* obj.flags['C_CONTIGUOUS']
C_CONTIGUOUS(a) == a.layout = "C"

\* np.ascontiguousarray
ascontiguousarray(a) == ndarray(a.dtype, a.shape, Elements(a), "C")

\* A float: the finite value m / 2 (k = 0), NaN (k = 1), or the infinity of
\* sign m (k = 2).
PyFloat(k, m) == [t |-> "float", v |-> <<k, m>>]

\* Values json cannot encode by itself: a set, an instance of some class, and
\* the json.JSONEncoder instance that NumpyEncoder.default returns.
PySet == [t |-> "set", v |-> <<>>]
PyObject == [t |-> "object", v |-> <<>>]
PyEncoderObject == [t |-> "JSONEncoder", v |-> <<>>]

\* An exception, as the outcome of a call.
Err(e) == [t |-> "error", v |-> e]
IsError(x) == x.t = "error"

\* Variant: the memory of the array is taken as it is, contiguous or not.
NumpyEncoder_default_raw(x) ==
    IF x.t = "ndarray"
    THEN PyDict([k \in {"__ndarray__", "dtype", "shape"} |->
            CASE k = "__ndarray__" -> PyStr(b64encode(ElementsToBytes(x.v.dtype, x.v.base)))
              [] k = "dtype" -> PyStr(dtype_str(x.v.dtype))
              [] OTHER -> PyTuple([n \in DOMAIN x.v.shape |-> PyInt(x.v.shape[n])])])
    ELSE PyEncoderObject

\* repr(obj): the name of the value's type stands for its printed form
repr(x) ==
    CASE x.t = "set" -> <<19, 5, 20>>
      [] x.t = "object" -> <<15, 2, 10, 5, 3, 20>>
      [] x.t = "ndarray" -> <<1, 18, 18, 1, 25>>
      [] OTHER -> <<5, 14, 3, 15, 4, 5, 18>>

\* Variant: a value of another type is encoded as its printed form.
NumpyEncoder_default_repr(x) ==
    IF x.t = "ndarray"
    THEN LET obj_data == IF C_CONTIGUOUS(x.v) THEN x.v.base
                         ELSE ascontiguousarray(x.v).base
         IN  PyDict([k \in {"__ndarray__", "dtype", "shape"} |->
                CASE k = "__ndarray__" -> PyStr(b64encode(ElementsToBytes(x.v.dtype, obj_data)))
                  [] k = "dtype" -> PyStr(dtype_str(x.v.dtype))
                  [] OTHER -> PyTuple([n \in DOMAIN x.v.shape |-> PyInt(x.v.shape[n])])])
    ELSE PyStr(repr(x))

\* NumpyEncoder.default (util.py 91-103): an array becomes a dict of the
\* base64 text of its contiguous bytes, its dtype name and its shape; for any
\* other value line 103 returns a newly constructed json.JSONEncoder.
NumpyEncoder_default(x) ==
    IF x.t = "ndarray"
    THEN LET obj_data == IF C_CONTIGUOUS(x.v) THEN x.v.base
                         ELSE ascontiguousarray(x.v).base
         IN  PyDict([k \in {"__ndarray__", "dtype", "shape"} |->
                CASE k = "__ndarray__" -> PyStr(b64encode(ElementsToBytes(x.v.dtype, obj_data)))
                  [] k = "dtype" -> PyStr(dtype_str(x.v.dtype))
                  [] OTHER -> PyTuple([n \in DOMAIN x.v.shape |-> PyInt(x.v.shape[n])])])
    ELSE PyEncoderObject

\* StringEncoder.default (util.py 110-114): the base class raises TypeError
\* for every value it is given, so the printed form is returned.
StringEncoder_default(x) == PyStr(repr(x))

\* The keys of a dict in the order its iteration yields them, for a dict
\* made by inserting its keys into an empty dict. CPython 2.7 keeps up to
\* five keys in a table of eight slots and six to twenty-one in a table of
\* thirty-two, and iterates over the slots; a key that finds the slot its
\* hash names free lies in it (string hashes are not randomised; hash gives
\* the low five bits on a 64-bit build). Where two keys of a dict name the
\* same slot their order depends on which was inserted first, and no order
\* is given; none is given for a key whose hash is not listed.
iterkeys(d) ==
    LET hash(k) == CASE k = "a" -> 0 [] k = "b" -> 3 [] k = "foo" -> 27
                     [] k = "step1" -> 22 [] k = "step2" -> 21 [] k = "show" -> 7
                     [] k = "bogus" -> 21 [] k = "configuration" -> 27
                     [] k = "__ndarray__" -> 22 [] k = "dtype" -> 9
                     [] k = "shape" -> 18 [] k = "result_file" -> 23
                     [] k = "hash" -> 4 [] k = "path" -> 25 [] k = "repeat" -> 3
        n == Cardinality(DOMAIN d)
        slot(k) == hash(k) % (IF n <= 5 THEN 8 ELSE 32)
    IN  CHOOSE s \in [1..n -> DOMAIN d] :
            n <= 21 /\ \A a, b \in 1..n : a < b => slot(s[a]) < slot(s[b])

\* str.decode('utf-8') of Python 2.7 from byte n on, as json's encoder calls
\* it for a byte string that holds a byte >= 128: the characters, or
\* ok = FALSE for the UnicodeDecodeError. A lead byte 0xC2..0xDF takes one
\* continuation byte, 0xE0..0xEF two, 0xF0..0xF4 three; the first
\* continuation byte may not be below 0xA0 after 0xE0, below 0x90 after
\* 0xF0, or above 0x8F after 0xF4. Surrogates are let through.
RECURSIVE decode_utf8(_, _, _)
decode_utf8(s, n, chars) ==
    IF n > Len(s) THEN [ok |-> TRUE, text |-> chars]
    ELSE IF s[n] < 1000 THEN decode_utf8(s, n + 1, Append(chars, s[n]))
    ELSE LET lead == s[n] - 1000
             more == IF lead \in 194..223 THEN 1
                     ELSE IF lead \in 224..239 THEN 2
                     ELSE IF lead \in 240..244 THEN 3
                     ELSE 0
             cont(k) == s[n + k] - 1128
             first == IF more = 1 THEN lead - 192
                      ELSE IF more = 2 THEN lead - 224
                      ELSE lead - 240
             RECURSIVE ch(_, _)
             ch(k, acc) == IF k > more THEN acc ELSE ch(k + 1, 64 * acc + cont(k))
         IN  IF \/ more = 0
                \/ n + more > Len(s)
                \/ \E k \in 1..more : s[n + k] \notin 1128..1191
                \/ (lead = 224 /\ cont(1) < 32)
                \/ (lead = 240 /\ cont(1) < 16)
                \/ (lead = 244 /\ cont(1) > 15)
             THEN [ok |-> FALSE, text |-> <<>>]
             ELSE decode_utf8(s, n + more + 1, Append(chars, 2000 + ch(1, first)))

\* json.JSONEncoder.encode with the default method of the encoder class cls:
\* the JSON document, or the exception that ends the call.  depth counts the
\* nested calls of default; the interpreter's recursion limit ends the chain.
\* A number is an integer <<n>> or a float <<k, m>>. A byte string is read
\* as UTF-8, so the document holds its characters. The document of a dict
\* holds its members, pairs of key and value, in the order of the text,
\* which is the order of the dict; the exception is that of the first item
\* or member that fails.
RECURSIVE Encode(_, _, _)
Encode(x, cls, depth) ==
    CASE x.t = "NoneType" -> JNull
      [] x.t = "bool" -> [t |-> IF x.v[1] = 1 THEN "true" ELSE "false", v |-> <<>>]
      [] x.t = "int" -> JNumber(x.v[1])
      [] x.t = "float" -> [t |-> "number", v |-> x.v]
      [] x.t = "unicode" -> JString(x.v)
      [] x.t = "str" ->
            LET u == decode_utf8(x.v, 1, <<>>) IN
            IF u.ok THEN JString(u.text) ELSE Err("UnicodeDecodeError")
      [] x.t \in {"list", "tuple", "dict"} ->
            LET keys == IF x.t = "dict" THEN iterkeys(x.v) ELSE [n \in DOMAIN x.v |-> n]
                parts == [n \in DOMAIN keys |-> Encode(x.v[keys[n]], cls, depth)]
                failed == {n \in DOMAIN parts : IsError(parts[n])}
            IN  IF failed # {}
                THEN parts[CHOOSE n \in failed : \A m \in failed : n <= m]
                ELSE IF x.t = "dict"
                THEN JObject([n \in DOMAIN keys |-> <<keys[n], parts[n]>>])
                ELSE JArray(parts)
      [] OTHER ->
            IF depth = MaxDepth THEN Err("RuntimeError")
            ELSE Encode(IF cls = "StringEncoder" THEN StringEncoder_default(x)
                        ELSE NumpyEncoder_default(x), cls, depth + 1)

\* util.json_dumps (213-223): cls or NumpyEncoder
json_dumps(obj, cls) == Encode(obj, IF cls = "None" THEN "NumpyEncoder" ELSE cls, 0)

\* np.frombuffer(data, dtype): a one-dimensional array over the bytes. The
\* dtype is a text np.dtype reads, or None for numpy's default float64; a
\* number is no dtype (TypeError). No array is made over a buffer for the
\* object type or for a type of element size 0, or when the bytes are no
\* whole number of elements (ValueError). No outcome is given for a dtype
\* that is a list, a dict, an array or text beyond ASCII.
frombuffer(bytes, dtype) ==
    LET array(dt) ==
            IF dt.kind = "O" \/ dt.itemsize = 0 THEN Err("ValueError")
            ELSE IF Len(bytes) % dt.itemsize # 0 THEN Err("ValueError")
            ELSE PyArray(ndarray(dt, <<Len(bytes) \div dt.itemsize>>,
                                 BytesToElements(dt, bytes), "C"))
    IN  CASE dtype.t = "NoneType" -> array(np_dtype("f", 8, "="))
          [] dtype.t \in {"int", "bool", "float"} -> Err("TypeError")
          [] dtype.t = "str"
             \/ (dtype.t = "unicode" /\ \A n \in DOMAIN dtype.v : dtype.v[n] < 1000) ->
                LET parsed == dtype_parse(dtype.v) IN
                IF parsed.ok THEN array(parsed.dtype) ELSE Err("TypeError")

\* ndarray.reshape(shape) of a contiguous array. With None for the shape the
\* array is returned as a view with its shape unchanged. Otherwise the shape
\* is one integer for a single axis or a sequence of at most 32 integers
\* (the empty string is the empty sequence); the first item that is None, a
\* string, a list or a dict is a TypeError, as is a dict for the shape. One
\* axis given as -1 takes the length the number of elements leaves for it;
\* lengths that do not make up the number of elements are a ValueError. No
\* outcome is given for a bool or a float as a length, which only some
\* versions of numpy accept, for a length below -1, or for an array as the
\* shape.
reshape(x, shape) ==
    LET sequence == shape.t \in {"list", "tuple"}
        items == IF sequence THEN shape.v ELSE IF shape.t = "int" THEN <<shape>> ELSE <<>>
        refused == {n \in DOMAIN items :
                      items[n].t \in {"NoneType", "str", "unicode", "list", "tuple", "dict"}}
        integers(k) == \A n \in 1..k : items[n].t = "int"
        dims == [n \in DOMAIN items |-> items[n].v[1]]
        free == {n \in DOMAIN dims : dims[n] = -1}
        known == Size([n \in DOMAIN dims |-> IF n \in free THEN 1 ELSE dims[n]])
        size == Size(x.v.shape)
        sh == [n \in DOMAIN dims |-> IF n \in free THEN size \div known ELSE dims[n]]
    IN  CASE shape.t = "NoneType" -> x
          [] shape.t = "dict" -> Err("TypeError")
          [] shape.t \in {"str", "unicode"} /\ shape.v # <<>> -> Err("TypeError")
          [] sequence /\ Len(items) > 32 -> Err("ValueError")
          [] sequence /\ Len(items) <= 32 /\ \E n \in refused : integers(n - 1) ->
                Err("TypeError")
          [] /\ \/ shape.t = "int"
                \/ (shape.t \in {"str", "unicode"} /\ shape.v = <<>>)
                \/ (sequence /\ Len(items) <= 32)
             /\ integers(Len(items))
             /\ \A n \in DOMAIN dims : dims[n] >= -1 ->
                IF \/ Cardinality(free) > 1
                   \/ (free # {} /\ (known = 0 \/ size % known # 0))
                   \/ (free = {} /\ known # size)
                THEN Err("ValueError")
                ELSE PyArray(ndarray(x.v.dtype, sh, x.v.base, "C"))

\* json_numpy_obj_hook, lines 132-133: the array a marked dict stands for,
\* or the exception of the first step that fails. base64.b64decode takes a
\* string or a buffer: unicode text is first encoded as ASCII
\* (UnicodeEncodeError), an array gives its bytes, each read as the
\* character it is the code of (0 stands for a character outside the
\* base64 alphabet); any other value is a TypeError.
decode_ndarray(dictionary) ==
    LET text == dictionary.v["__ndarray__"]
        chr(b) == IF b \in 97..122 THEN b - 96
                  ELSE IF b \in 65..90 THEN b + 35
                  ELSE IF b \in 48..57 THEN b + 104
                  ELSE IF b = 43 THEN 162
                  ELSE IF b = 47 THEN 163
                  ELSE IF b = 61 THEN Pad
                  ELSE 0
        buffer == ElementsToBytes(text.v.dtype, Elements(text.v))
        s == IF text.t = "ndarray" THEN [n \in DOMAIN buffer |-> chr(buffer[n])]
             ELSE text.v
    IN  IF text.t \notin {"str", "unicode", "ndarray"} THEN Err("TypeError")
        ELSE IF text.t = "unicode" /\ \E n \in DOMAIN text.v : text.v[n] >= 1000
        THEN Err("UnicodeEncodeError")
        ELSE LET data == b64decode(s) IN
             IF ~data.ok THEN Err("TypeError")
             ELSE IF "dtype" \notin DOMAIN dictionary.v THEN Err("KeyError")
             ELSE LET flat == frombuffer(data.bytes, dictionary.v["dtype"]) IN
                  IF IsError(flat) THEN flat
                  ELSE IF "shape" \notin DOMAIN dictionary.v THEN Err("KeyError")
                  ELSE reshape(flat, dictionary.v["shape"])

\* Variant: every decoded mapping is taken for an encoded array.
json_numpy_obj_hook_any(dictionary) ==
    IF dictionary.t = "dict"
    THEN IF "__ndarray__" \in DOMAIN dictionary.v THEN decode_ndarray(dictionary)
         ELSE Err("KeyError")
    ELSE dictionary

\* json_numpy_obj_hook (util.py 117-134)
json_numpy_obj_hook(dictionary) ==
    IF dictionary.t = "dict" /\ "__ndarray__" \in DOMAIN dictionary.v
    THEN decode_ndarray(dictionary)
    ELSE dictionary

\* json.loads with object_hook = json_numpy_obj_hook (util.py 170-180):
\* strings come back as unicode, arrays as lists, and every object goes
\* through the hook once its members are decoded. The items of an array and
\* the members of an object (pairs of key and value) are decoded in the
\* order of the text, so the exception is that of the first one that fails;
\* of two members with the same key the dict gets the later one.
RECURSIVE Decode(_)
Decode(j) ==
    CASE j.t = "null" -> PyNone
      [] j.t = "true" -> PyBool(TRUE)
      [] j.t = "false" -> PyBool(FALSE)
      [] j.t = "number" -> IF Len(j.v) = 1 THEN PyInt(j.v[1]) ELSE PyFloat(j.v[1], j.v[2])
      [] j.t = "string" -> PyUnicode(j.v)
      [] OTHER ->
            LET parts == [n \in DOMAIN j.v |->
                            Decode(IF j.t = "object" THEN j.v[n][2] ELSE j.v[n])]
                failed == {n \in DOMAIN parts : IsError(parts[n])}
                last(k) == CHOOSE n \in DOMAIN j.v :
                              /\ j.v[n][1] = k
                              /\ \A m \in DOMAIN j.v : j.v[m][1] = k => m <= n
            IN  IF failed # {}
                THEN parts[CHOOSE n \in failed : \A m \in failed : n <= m]
                ELSE IF j.t = "object"
                THEN json_numpy_obj_hook(
                        PyDict([k \in {j.v[n][1] : n \in DOMAIN j.v} |-> parts[last(k)]]))
                ELSE PyList(parts)

json_loads(s) == Decode(s)

\* x == y in Python for two values that are not the same object. Numbers
\* are compared by value, whatever their types, and NaN equals nothing; a
\* byte string equals unicode text when both are the same ASCII characters;
\* two arrays are equal when they have the same element type, the same
\* shape and the same elements in the same positions.
RECURSIVE PyEq(_, _)
PyEq(x, y) ==
    LET number(z) == z.t \in {"int", "bool", "float"}
        halves(z) == IF z.t = "float" THEN z.v ELSE <<0, 2 * z.v[1]>>
    IN  IF x.t \in {"str", "unicode"} THEN y.t \in {"str", "unicode"} /\ x.v = y.v
        ELSE IF number(x)
        THEN number(y) /\ halves(x)[1] # 1 /\ halves(x) = halves(y)
        ELSE /\ x.t = y.t
             /\ CASE x.t \in {"list", "tuple", "dict"} ->
                        /\ DOMAIN x.v = DOMAIN y.v
                        /\ \A k \in DOMAIN x.v : PyEq(x.v[k], y.v[k])
                  [] x.t = "ndarray" ->
                        /\ x.v.dtype = y.v.dtype
                        /\ x.v.shape = y.v.shape
                        /\ Elements(x.v) = Elements(y.v)
                  [] OTHER -> x.v = y.v

\* Values handed to the codec.

\* numeric arrays: every shape of at most two axes with extents from 0 to
\* MaxDim, every layout the shape admits, two element values per type (for
\* float64 the patterns of 1.5 and of NaN)
ArraysOf(dt, sh) ==
    LET Layouts ==
            {"C"} \cup (IF Len(sh) = 1 /\ sh[1] >= 2 THEN {"S"} ELSE {})
                  \cup (IF Len(sh) = 2 /\ sh[1] >= 2 /\ sh[2] >= 2 THEN {"T"} ELSE {})
        BaseLen(layout) == IF layout = "S" THEN 2 * sh[1] - 1 ELSE Size(sh)
        ElementValues ==
            IF dt.kind = "u" THEN {0, 200}
            ELSE IF dt.kind = "i" THEN {-2, 258}
            ELSE {<<0, 0, 0, 0, 0, 0, 248, 63>>, <<0, 0, 0, 0, 0, 0, 248, 127>>}
    IN  UNION {{PyArray(ndarray(dt, sh, base, layout)) :
                  base \in [1..BaseLen(layout) -> ElementValues]} : layout \in Layouts}
Arrays ==
    LET Shapes == {<<>>} \cup {<<n>> : n \in 0..MaxDim} \cup {<<r, c>> : r, c \in 0..MaxDim}
    IN  UNION {ArraysOf(dt, sh) : dt \in Dtypes, sh \in Shapes}

\* an array as the value of a store entry
StoredArrays ==
    {PyDict([k \in {"foo"} |-> x]) : x \in ArraysOf(np_dtype("i", 2, "="), <<2>>)}

\* values built from scalars, strings, booleans, lists and string-keyed
\* dicts. The leaves are None, 1, True, 1.5, NaN, the byte string 'foo', the
\* byte strings '\xc3\xa9' (the UTF-8 of U+E9) and '\xff' (no UTF-8), and
\* the unicode text u'\xe9'.
Leaves ==
    {PyNone, PyInt(1), PyBool(TRUE), PyFloat(0, 3), PyFloat(1, 0), PyStr(Foo),
     PyStr(<<1195, 1169>>), PyStr(<<1255>>), PyUnicode(<<2233>>)}
RECURSIVE Trees(_)
Trees(n) ==
    LET Keys == {"foo", "__ndarray__"} IN
    IF n = 0 THEN Leaves
    ELSE LET T == Trees(n - 1) IN
         T \cup {PyList(<<>>)} \cup {PyList(<<x>>) : x \in T}
           \cup {PyList(<<x, y>>) : x, y \in Leaves}
           \cup {PyDict([k \in {} |-> PyNone])}
           \cup {PyDict([k \in {key} |-> x]) : key \in Keys, x \in T}
           \cup {PyDict([k \in Keys |-> IF k = "foo" THEN x ELSE y]) : x, y \in Leaves}

\* values that hold something json cannot encode by itself
Unsupported ==
    LET O == {PySet, PyObject} IN
    O \cup {PyList(<<x>>) : x \in O} \cup {PyList(<<PyInt(1), x>>) : x \in O}
      \cup {PyDict([k \in {"foo"} |-> x]) : x \in O}
      \cup {PyDict([k \in {"foo"} |-> PyList(<<x>>)]) : x \in O}

\* dicts of plain values that spell the encoding of an array, well or not:
\* the base64 text of two bytes, a dtype text (uint8, >i2, S1, foo) and a
\* shape ([2], [1], -1, None)
MarkedDicts ==
    LET shape(n) == CASE n = 1 -> PyList(<<PyInt(2)>>) [] n = 2 -> PyList(<<PyInt(1)>>)
                      [] n = 3 -> PyInt(-1) [] OTHER -> PyNone
    IN  {PyDict([k \in {"__ndarray__", "dtype", "shape"} |->
            CASE k = "__ndarray__" -> PyStr(b64encode(<<200, 1>>))
              [] k = "dtype" -> PyStr(dtype)
              [] OTHER -> shape(n)]) :
            dtype \in {<<21, 9, 14, 20, 160>>, <<166, 9, 154>>, <<118, 153>>, Foo}, n \in 1..4}

\* the stores of a pipeline as run_show prints them (pipeline.py 194): the
\* results of some commands, each 0, 'foo' or a set
Stores ==
    UNION {{PyDict(store) : store \in [cmds -> {PyInt(0), PyStr(Foo), PySet}]} :
             cmds \in SUBSET Registry}

CodecInputs ==
    Arrays \cup StoredArrays \cup Trees(MaxNest) \cup MarkedDicts \cup Unsupported
           \cup Stores

\* No pipeline is running.
PipelineIdle ==
    /\ argv0 = ""
    /\ output_arg = NoPath
    /\ deps = ExampleDeps
    /\ repetition = 0
    /\ fs = [p \in Paths |-> "none"]
    /\ disk = NoFiles
    /\ output_file = NoPath
    /\ requested = <<>>
    /\ preset = FALSE
    /\ force = FALSE
    /\ commands = <<>>
    /\ configuration = PyDict(<<>>)
    /\ result = EmptyStore
    /\ impl = [c \in UserCommands |-> Unset]
    /\ pc = "idle"
    /\ i = 1
    /\ stack = <<>>
    /\ retval = Unset
    /\ error = "none"
    /\ calls = ZeroCount
    /\ invoked = ZeroCount
    /\ runNo = 0
    /\ fs0 = fs
    /\ disk0 = disk
    /\ prevOk = FALSE

PipelineVars ==
    <<argv0, output_arg, deps, repetition, heap, fs, disk, output_file, requested, preset, commands, force, configuration,
      result, impl, pc, i, stack, retval, error, calls, invoked, runNo, fs0, disk0,
      prevOk>>

InitCodec ==
    /\ PipelineIdle
    /\ fnArg \in CodecInputs
    /\ fnOut = PyNone
    /\ fnOp = "none"
    /\ cbObj = NoCallback
    /\ cbLog = <<>>
    /\ heap = NoObjects

\* json_dumps(obj): the durable encoding (NumpyEncoder)
dumps ==
    /\ fnOp = "none"
    /\ fnOut' = json_dumps(fnArg, "None")
    /\ fnOp' = "json_dumps"
    /\ UNCHANGED <<fnArg, cbObj, cbLog, PipelineVars>>

\* json_loads of the document json_dumps produced
loads ==
    /\ fnOp = "json_dumps"
    /\ ~IsError(fnOut)
    /\ fnOut' = json_loads(fnOut)
    /\ fnOp' = "json_loads"
    /\ UNCHANGED <<fnArg, cbObj, cbLog, PipelineVars>>

\* json_dumps(obj, cls=StringEncoder): the display encoding of run_show
\* (pipeline.py 194)
dumps_for_display ==
    /\ fnOp = "none"
    /\ fnOut' = json_dumps(fnArg, "StringEncoder")
    /\ fnOp' = "display"
    /\ UNCHANGED <<fnArg, cbObj, cbLog, PipelineVars>>

NextCodec ==
    \/ dumps
    \/ loads
    \/ dumps_for_display

SpecCodec == InitCodec /\ [][NextCodec]_vars

----------------------------------------------------------------------------
\* recursive_update (util.py 239-258) as the earlier Pipeline.__init__ uses
\* it: the loaded configuration is merged onto the default configuration.

\* Variant: dict.update, the value of other replaces the value of self.
recursive_update_shallow(self, other) ==
    PyDict([key \in DOMAIN self.v \cup DOMAIN other.v |->
        IF key \in DOMAIN other.v THEN other.v[key] ELSE self.v[key]])

\* recursive_update(self, other): self after the loop of lines 250-257
RECURSIVE recursive_update(_, _)
recursive_update(self, other) ==
    PyDict([key \in DOMAIN self.v \cup DOMAIN other.v |->
        IF key \notin DOMAIN other.v THEN self.v[key]
        ELSE IF key \notin DOMAIN self.v \/ other.v[key].t # "dict" \/ self.v[key].t # "dict"
        THEN other.v[key]
        ELSE recursive_update(self.v[key], other.v[key])])

\* Configurations nested at most n deep whose parameters all have the value
\* leaf: the key a holds a parameter or a nested configuration, the key b a
\* parameter or an empty configuration.
RECURSIVE ConfigDicts(_, _)
ConfigDicts(n, leaf) ==
    LET V == {leaf} \cup (IF n > 1 THEN ConfigDicts(n - 1, leaf) ELSE {})
        W == {leaf, PyDict([k \in {} |-> leaf])}
    IN  {PyDict([k \in {} |-> leaf])}
        \cup {PyDict([k \in {"a"} |-> x]) : x \in V}
        \cup {PyDict([k \in {"b"} |-> y]) : y \in W}
        \cup {PyDict([k \in {"a", "b"} |-> IF k = "a" THEN x ELSE y]) : x \in V, y \in W}

\* the default configuration holds the value 1 everywhere, the loaded one 2
InitMerge ==
    /\ PipelineIdle
    /\ \E d \in ConfigDicts(MaxNest, PyInt(1)), o \in ConfigDicts(MaxNest, PyInt(2)) :
          fnArg = <<d, o>>
    /\ fnOut = PyNone
    /\ fnOp = "none"
    /\ cbObj = NoCallback
    /\ cbLog = <<>>
    /\ heap = NoObjects

\* self.configuration = recursive_update(self._default_configuration(),
\* configuration) (pipeline.py 216)
merge ==
    /\ fnOp = "none"
    /\ fnOut' = recursive_update(fnArg[1], fnArg[2])
    /\ fnOp' = "recursive_update"
    /\ UNCHANGED <<fnArg, cbObj, cbLog, PipelineVars>>

NextMerge == merge

SpecMerge == InitMerge /\ [][NextMerge]_vars

----------------------------------------------------------------------------
\* Scoped configuration lookup of the earlier Pipeline (pipeline.py 241-265),
\* as a function of the configuration and the key; SpecConfig applies it.

\* the keys of a configuration that name commands
ConfigKeys == {"foo", "step1", "step2"}

\* the values of such keys: a parameter, a list, an empty or non-empty section,
\* or a string (unicode when read from the configuration file)
ConfigValues ==
    {PyInt(1), PyList(<<>>), PyDict([k \in {} |-> PyInt(1)]), PyDict([k \in {"a"} |-> PyInt(1)])}
    \cup {PyStr(k) : k \in ConfigKeys} \cup {PyUnicode(k) : k \in ConfigKeys}

\* self.configuration, restricted to those keys
CommandConfigurations == UNION {[S -> ConfigValues] : S \in SUBSET ConfigKeys}

\* isinstance(x, basestring)
IsBasestring(x) == x.t \in {"str", "unicode"}

\* _get_configuration(key), lines 241-265, called with frames frames of it
\* already on the interpreter's stack: an absent key gives {}, a string is
\* looked up as a key in turn (254-255), anything but a dict raises ValueError
\* (259-262).  The interpreter ends a recursion deeper than its limit, MaxDepth
\* here, with RuntimeError.
RECURSIVE get_configuration(_, _, _)
get_configuration(cfg, key, frames) ==
    IF frames >= MaxDepth THEN Err("RuntimeError")
    ELSE IF key \notin DOMAIN cfg THEN PyDict([k \in {} |-> PyInt(1)])
    ELSE LET found ==
                 IF IsBasestring(cfg[key])
                 THEN get_configuration(cfg, cfg[key].v, frames + 1)
                 ELSE cfg[key]
         IN  IF IsError(found) THEN found
             ELSE IF found.t # "dict" THEN Err("ValueError")
             ELSE found

InitConfig ==
    /\ PipelineIdle
    /\ \E cfg \in CommandConfigurations, key \in ConfigKeys : fnArg = <<cfg, key>>
    /\ fnOut = PyNone
    /\ fnOp = "none"
    /\ cbObj = NoCallback
    /\ cbLog = <<>>
    /\ heap = NoObjects

\* self._get_configuration(command) (pipeline.py 386)
lookup_configuration ==
    /\ fnOp = "none"
    /\ fnOut' = get_configuration(fnArg[1], fnArg[2], 0)
    /\ fnOp' = "_get_configuration"
    /\ UNCHANGED <<fnArg, cbObj, cbLog, PipelineVars>>

NextConfig == lookup_configuration

SpecConfig == InitConfig /\ [][NextConfig]_vars

----------------------------------------------------------------------------
\* The callback classes (callback.py 4-38, sampling/base.py 8-31); SpecCallback
\* constructs one object and calls it up to MaxCalls times.  cbObj holds the
\* attributes of the object (those its class does not have stay at their
\* default) and count, the number of calls made to it; cbLog holds one entry
\* per call the object makes to a callback it wraps and per line it prints.

MaxCalls == 6
MaxPeriod == 2

\* the callbacks handed to a constructor
Callbacks == {"f", "g"}

\* the argument of a call
CallArgs == {PyInt(1), PyInt(2)}

\* what the callback c returns for the argument x
CallbackResult(c, x) == PyInt((IF c = "f" THEN 10 ELSE 20) + x.v[1])

\* tuples of at most two callbacks
CallbackTuples == UNION {[1..n -> Callbacks] : n \in 0..2}

\* PeriodicCallback.__init__, lines 25-28
PeriodicCallback(callback, period) ==
    [cls |-> "PeriodicCallback", period |-> period, current |-> 0,
     callbacks |-> <<callback>>, has_return_value |-> FALSE, return_value |-> PyNone,
     count |-> 0]

\* CallbackChain.__init__, lines 8-11: return_value is an attribute only when
\* the keyword was given
CallbackChain(args, given, return_value) ==
    [cls |-> "CallbackChain", period |-> 0, current |-> 0,
     callbacks |-> args, has_return_value |-> given,
     return_value |-> IF given THEN return_value ELSE PyNone, count |-> 0]

\* ReportCallback.__init__, lines 19-23
ReportCallback(period, others) ==
    [cls |-> "ReportCallback", period |-> period, current |-> 0,
     callbacks |-> others, has_return_value |-> FALSE, return_value |-> PyNone,
     count |-> 0]

CallbackObjects ==
    {PeriodicCallback(c, n) : c \in Callbacks, n \in 0..MaxPeriod}
    \cup {CallbackChain(a, FALSE, PyNone) : a \in CallbackTuples}
    \cup {CallbackChain(a, TRUE, v) : a \in CallbackTuples, v \in {PyNone, PyInt(0), PyInt(7)}}
    \cup {ReportCallback(n, o) : n \in 0..MaxPeriod, o \in CallbackTuples}

\* the entry of the log for the call of callback c with x during call k of the
\* object; shown is the iteration number of a printed line, 0 otherwise
Entry(c, x, k, shown) == [cb |-> c, arg |-> x, call |-> k, shown |-> shown]

\* for arg in self.args: result = arg(*args, **kwargs)
CallAll(cbs, x, k) == [n \in 1..Len(cbs) |-> Entry(cbs[n], x, k, 0)]

InitCallback ==
    /\ PipelineIdle
    /\ fnArg = PyNone
    /\ fnOut = PyNone
    /\ fnOp = "none"
    /\ cbObj \in CallbackObjects
    /\ cbLog = <<>>
    /\ heap = NoObjects

\* PeriodicCallback.__call__, line 34 negated: this call goes to the callback
PeriodicDue(period, current) == ~(current < period)

\* PeriodicCallback.__call__, lines 30-38
periodic_call ==
    /\ cbObj.cls = "PeriodicCallback"
    /\ cbObj.count < MaxCalls
    /\ \E x \in CallArgs :
          /\ fnArg' = x
          /\ IF cbObj.period = 0
             THEN /\ cbObj' = [cbObj EXCEPT !.count = @ + 1]
                  /\ cbLog' = cbLog
                  /\ fnOut' = PyNone
             ELSE IF ~PeriodicDue(cbObj.period, cbObj.current)
             THEN /\ cbObj' = [cbObj EXCEPT !.count = @ + 1, !.current = @ + 1]
                  /\ cbLog' = cbLog
                  /\ fnOut' = PyNone
             ELSE /\ cbObj' = [cbObj EXCEPT !.count = @ + 1, !.current = 0]
                  /\ cbLog' = cbLog \o CallAll(cbObj.callbacks, x, cbObj.count + 1)
                  /\ fnOut' = CallbackResult(cbObj.callbacks[1], x)
    /\ fnOp' = "PeriodicCallback.__call__"
    /\ UNCHANGED PipelineVars

\* Variant: a return value that is not truthy gives way to the last result.
ChainReturnOr(obj, last) ==
    IF obj.has_return_value /\ Truthy(obj.return_value) THEN obj.return_value ELSE last

\* CallbackChain.__call__, line 18: getattr(self, 'return_value', result)
ChainReturn(obj, last) ==
    IF obj.has_return_value THEN obj.return_value ELSE last

\* CallbackChain.__call__, lines 13-18
chain_call ==
    /\ cbObj.cls = "CallbackChain"
    /\ cbObj.count < MaxCalls
    /\ \E x \in CallArgs :
          LET cbs == cbObj.callbacks
              last == IF cbs = <<>> THEN PyNone ELSE CallbackResult(cbs[Len(cbs)], x)
          IN  /\ fnArg' = x
              /\ cbLog' = cbLog \o CallAll(cbs, x, cbObj.count + 1)
              /\ fnOut' = ChainReturn(cbObj, last)
    /\ cbObj' = [cbObj EXCEPT !.count = @ + 1]
    /\ fnOp' = "CallbackChain.__call__"
    /\ UNCHANGED PipelineVars

\* Variant: every call reports when a period is set.
ReportDueAlways(period, current) == period # 0

\* ReportCallback.__call__, line 27
ReportDue(period, current) == period # 0 /\ current % period = 0

\* ReportCallback.__call__, lines 25-31
report_call ==
    /\ cbObj.cls = "ReportCallback"
    /\ cbObj.count < MaxCalls
    /\ \E x \in CallArgs :
          LET current == cbObj.current + 1
              printed == IF ReportDue(cbObj.period, current)
                         THEN <<Entry("print", x, cbObj.count + 1, current)>>
                         ELSE <<>>
          IN  /\ fnArg' = x
              /\ cbObj' = [cbObj EXCEPT !.count = @ + 1, !.current = current]
              /\ cbLog' = cbLog \o printed \o CallAll(cbObj.callbacks, x, cbObj.count + 1)
    /\ fnOut' = PyNone
    /\ fnOp' = "ReportCallback.__call__"
    /\ UNCHANGED PipelineVars

NextCallback ==
    \/ periodic_call
    \/ chain_call
    \/ report_call

SpecCallback == InitCallback /\ [][NextCallback]_vars

----------------------------------------------------------------------------
\* The earlier Pipeline with a configured repeat count (pc = "load" is the
\* head of the repetition loop of run, lines 340-342).  A configuration is
\* <<parameter, result file, repeat>>; without the third component the key
\* 'repeat' is absent.  The counters calls and invoked count per repetition.

RepeatConfigurations ==
    {PyDict(<<1, r>>) : r \in {1, 2}}
    \cup {PyDict(<<1, r, n>>) : r \in {1, 2}, n \in 0..MaxRepeat}

\* self.configuration.get('repeat', None), line 339
ConfiguredRepeat(cfg) == IF Len(cfg.v) >= 3 THEN PyInt(cfg.v[3]) ELSE PyNone

\* range(repeat or 1), line 340: the number of repetitions
RepeatCount(repeat) == IF Truthy(repeat) THEN repeat.v[1] ELSE 1

\* Variant: the repetition number is not passed on.
RepeatIndexNone(repeat, n) == PyNone

\* None if repeat is None else i, lines 342 and 349
RepeatIndex(repeat, n) == IF repeat = PyNone THEN PyNone ELSE PyInt(n)

\* _get_result_file(repeat), lines 296-311
get_result_file_repeat(out, cfg, repeat) ==
    LET result_file == get_result_file(out, cfg) IN
    IF result_file = NoPath THEN [ok |-> FALSE, error |-> "ValueError", path |-> NoPath]
    ELSE IF repeat = PyNone THEN [ok |-> TRUE, error |-> "none", path |-> result_file]
    ELSE IF ~Placeholder(result_file)
         THEN [ok |-> FALSE, error |-> "AssertionError", path |-> NoPath]
    ELSE [ok |-> TRUE, error |-> "none", path |-> Replace(result_file, str(repeat.v[1]))]

\* result documents left by an earlier program in the files of the first two
\* repetitions
InitRepeatFiles ==
    {[fs |-> [p \in RepeatPaths |-> "none"], disk |-> [p \in RepeatPaths |-> EmptyDoc]]}
    \cup {[fs |-> [p \in RepeatPaths |->
                      IF p = OutDir THEN "dir" ELSE IF p \in F THEN "file" ELSE "none"],
           disk |-> [p \in RepeatPaths |->
                      IF p = Replace(OutTemplate, str(0)) /\ p \in F
                      THEN [c \in {"foo"} |-> JString(Foo)]
                      ELSE IF p = Replace(OutTemplate, str(1)) /\ p \in F
                      THEN [c \in {"step1"} |-> JString(Foo)]
                      ELSE EmptyDoc]] :
          F \in SUBSET {Replace(OutTemplate, str(0)), Replace(OutTemplate, str(1))}}

InitRepeat ==
    /\ argv0 = ""
    /\ output_arg = NoPath
    /\ deps \in LegacyRegistries
    /\ repetition = 0
    /\ fnArg = PyNone
    /\ fnOut = PyNone
    /\ fnOp = "none"
    /\ cbObj = NoCallback
    /\ cbLog = <<>>
    /\ heap = NoObjects
    /\ \E f \in InitRepeatFiles : fs = f.fs /\ disk = f.disk
    /\ output_file = NoPath
    /\ requested \in Lists(MaxCmds) \ {<<>>}
    /\ preset = FALSE
    /\ force \in BOOLEAN
    /\ commands = <<>>
    /\ configuration \in RepeatConfigurations
    /\ result = EmptyStore
    /\ impl = [c \in UserCommands |-> Unset]
    /\ pc = "init"
    /\ i = 1
    /\ stack = <<>>
    /\ retval = Unset
    /\ error = "none"
    /\ calls = ZeroCount
    /\ invoked = ZeroCount
    /\ runNo = 0
    /\ fs0 = fs
    /\ disk0 = disk
    /\ prevOk = FALSE

\* run, lines 332-340: parse the arguments, read the repeat count, enter the
\* repetition loop
repeat_run ==
    /\ pc = "init"
    /\ runNo' = runNo + 1
    /\ fs0' = fs
    /\ disk0' = disk
    /\ commands' = requested
    /\ repetition' = 0
    /\ pc' = "load"
    /\ UNCHANGED <<argv0, output_arg, deps, fnArg, fnOut, fnOp, cbObj, cbLog, heap,
                   fs, disk, output_file, requested, preset, force, configuration,
                   result, impl, i, stack, retval, error, calls, invoked, prevOk>>

\* run, line 342: self.result = self._load_result(None if repeat is None else i)
repeat_load ==
    /\ pc = "load"
    /\ UNCHANGED <<argv0, output_arg, deps, fnArg, fnOut, fnOp, repetition, cbObj, cbLog, heap,
                   fs, disk, output_file, requested, preset, commands, force,
                   configuration, impl, runNo, fs0, disk0, prevOk>>
    /\ LET g == get_result_file_repeat(output_file, configuration,
                    RepeatIndex(ConfiguredRepeat(configuration), repetition))
       IN
       IF ~g.ok
       THEN Fail(g.error) /\ UNCHANGED <<result, i, retval, calls, invoked>>
       ELSE LET r == load_result(fs, disk, g.path, configuration) IN
            IF r.ok
            THEN /\ result' = r.store
                 /\ pc' = "loop"
                 /\ i' = 1
                 /\ retval' = Unset
                 /\ calls' = ZeroCount
                 /\ invoked' = ZeroCount
                 /\ UNCHANGED <<stack, error>>
            ELSE Fail("IOError") /\ UNCHANGED <<result, i, retval, calls, invoked>>

\* run, lines 349-352: the result of the repetition is dumped and cleared, and
\* the loop goes on to the next repetition or ends
repeat_dump ==
    /\ pc = "save"
    /\ UNCHANGED <<argv0, output_arg, deps, fnArg, fnOut, fnOp, cbObj, cbLog, heap,
                   output_file, requested, preset, commands, force, configuration,
                   impl, i, retval, calls, invoked, runNo, fs0, disk0, prevOk>>
    /\ LET g == get_result_file_repeat(output_file, configuration,
                    RepeatIndex(ConfiguredRepeat(configuration), repetition))
           m == IF Dirname(g.path) # "" THEN mkdir_p(fs, Dirname(g.path))
                ELSE [ok |-> TRUE, fs |-> fs]
       IN
       IF ~g.ok
       THEN Fail(g.error) /\ UNCHANGED <<fs, disk, result, repetition>>
       ELSE IF ~m.ok
       THEN Fail("OSError") /\ fs' = m.fs /\ UNCHANGED <<disk, result, repetition>>
       ELSE LET d == json_dump(m.fs, disk, g.path, EncodeDoc(result)) IN
            /\ fs' = d.fs
            /\ disk' = d.disk
            /\ IF d.ok
               THEN /\ result' = EmptyStore
                    /\ UNCHANGED <<stack, error>>
                    /\ IF repetition + 1 < RepeatCount(ConfiguredRepeat(configuration))
                       THEN pc' = "load" /\ repetition' = repetition + 1
                       ELSE pc' = "done" /\ repetition' = repetition
               ELSE Fail("IOError") /\ UNCHANGED <<result, repetition>>

NextRepeat ==
    \/ repeat_run
    \/ repeat_load
    \/ execute_unknown
    \/ execute_cached
    \/ execute_command
    \/ execute_raise
    \/ repeat_dump

SpecRepeat == InitRepeat /\ [][NextRepeat]_vars

----------------------------------------------------------------------------
\* recursive_update (util.py 239-258) on dict objects with identity.  heap
\* maps the address of a dict object to its items; an item is a parameter or
\* the address of another dict object, [t |-> "dict", v |-> <<address>>].
\* SpecAlias merges o1 and then o2 into d.

\* a dict value by reference
Ref(address) == [t |-> "dict", v |-> <<address>>]

\* the addresses of d, o1 and o2, and of the dict nested under the key a of each
AddressOfD == 1
AddressOfO1 == 2
AddressOfO2 == 3
Roots == {AddressOfD, AddressOfO1, AddressOfO2}
Nested(root) == root + Cardinality(Roots)

\* what a mapping holds under the key a: nothing, a parameter, or a nested
\* mapping that is empty or holds one parameter
ShapesOfA == {"absent", "leaf", "empty", "a", "b"}

\* the heap holding d, o1 and o2 with the given shapes; the parameters of the
\* mapping at address r all have the value r
HeapOf(atA, hasB) ==
    [x \in Roots \cup {Nested(r) : r \in {q \in Roots : atA[q] \in {"empty", "a", "b"}}} |->
        IF x \in Roots
        THEN [k \in (IF atA[x] = "absent" THEN {} ELSE {"a"})
                    \cup (IF hasB[x] THEN {"b"} ELSE {}) |->
                 IF k = "a" /\ atA[x] # "leaf" THEN Ref(Nested(x)) ELSE PyInt(x)]
        ELSE LET r == x - Cardinality(Roots) IN
             [k \in (IF atA[r] = "empty" THEN {} ELSE {atA[r]}) |-> PyInt(r)]]

\* the order in which iteritems yields the keys
KeyOrder == <<"a", "b">>

\* recursive_update(self, other), lines 250-258, on the heap h: the heap after
\* the items of other from position n of the key order on have been handled
RECURSIVE update_items(_, _, _, _)
update_items(h, self, other, n) ==
    IF n > Len(KeyOrder) THEN h
    ELSE LET key == KeyOrder[n] IN
         IF key \notin DOMAIN h[other] THEN update_items(h, self, other, n + 1)
         ELSE LET value == h[other][key] IN
              IF key \notin DOMAIN h[self] \/ value.t # "dict" \/ h[self][key].t # "dict"
              THEN update_items([h EXCEPT ![self] = Put(h[self], key, value)],
                                self, other, n + 1)
              ELSE update_items(update_items(h, h[self][key].v[1], value.v[1], 1),
                                self, other, n + 1)

InitAlias ==
    /\ PipelineIdle
    /\ \E atA \in [Roots -> ShapesOfA], hasB \in [Roots -> BOOLEAN] :
          /\ heap = HeapOf(atA, hasB)
          /\ fnArg = heap
    /\ fnOut = PyNone
    /\ fnOp = "none"
    /\ cbObj = NoCallback
    /\ cbLog = <<>>

\* recursive_update(d, o1)
merge_first ==
    /\ fnOp = "none"
    /\ heap' = update_items(heap, AddressOfD, AddressOfO1, 1)
    /\ fnOut' = Ref(AddressOfD)
    /\ fnOp' = "recursive_update(d, o1)"
    /\ UNCHANGED <<fnArg, cbObj, cbLog, argv0, output_arg, deps, repetition, fs, disk, output_file, requested,
                   preset, commands, force, configuration, result, impl, pc, i, stack,
                   retval, error, calls, invoked, runNo, fs0, disk0, prevOk>>

\* recursive_update(d, o2)
merge_second ==
    /\ fnOp = "recursive_update(d, o1)"
    /\ heap' = update_items(heap, AddressOfD, AddressOfO2, 1)
    /\ fnOut' = Ref(AddressOfD)
    /\ fnOp' = "recursive_update(d, o2)"
    /\ UNCHANGED <<fnArg, cbObj, cbLog, argv0, output_arg, deps, repetition, fs, disk, output_file, requested,
                   preset, commands, force, configuration, result, impl, pc, i, stack,
                   retval, error, calls, invoked, runNo, fs0, disk0, prevOk>>

NextAlias ==
    \/ merge_first
    \/ merge_second

SpecAlias == InitAlias /\ [][NextAlias]_vars

----------------------------------------------------------------------------
\* Properties of the live Pipeline (Spec).

\* A step in which require(c) is called.
Called(c) == calls'[c] = calls[c] + 1

\* A step in which the implementation on top of the stack returns to require.
Returned == stack # <<>> /\ pc' \in {"loop", "save"} /\ Len(stack') = Len(stack) - 1

\* The value that implementation returned.
ReturnedValue == IF Top.cmd = "show" THEN PyNone ELSE impl'[Top.cmd]

\* The store and the document of the result file at the start of the run.
LoadedFile == output_file # NoPath /\ fs0[OutFile] = "file"
LoadedDoc == disk0[OutFile]

\* C1. Cache hit: a require(c) call made with force = false while the store
\* holds a truthy value for c invokes no implementation, returns the stored
\* value and leaves the store unchanged.
C1_CacheHit ==
    [][\A c \in Registry :
          (Called(c) /\ ~force /\ c \in DOMAIN result /\ Truthy(result[c]))
          => (invoked' = invoked /\ retval' = result[c] /\ result' = result)]_vars

\* A command was served from the store loaded from the result file.
C1_Witness ==
    \E c \in Registry :
        /\ ~force /\ pc \in {"loop", "save"} /\ LoadedFile
        /\ calls[c] = 1 /\ invoked[c] = 0
        /\ c \in DOMAIN result /\ retval = result[c] /\ Truthy(result[c])

\* C2. Falsy results are never cached: a require(c) call made while the value
\* stored for c is falsy invokes the implementation of c; this holds for a
\* value stored earlier in the run and for one loaded from the result file.
C2_FalsyNeverCached ==
    [][\A c \in Registry :
          (Called(c) /\ c \in DOMAIN result /\ ~Truthy(result[c]))
          => invoked'[c] = invoked[c] + 1]_vars

\* In a second run a command whose loaded value is falsy and whose
\* implementation returns a falsy value has been invoked twice.
C2_Witness ==
    \E c \in Registry :
        /\ runNo = 2 /\ ~force /\ LoadedFile
        /\ c \in DOMAIN LoadedDoc /\ ~Truthy(json_decode(LoadedDoc[c]))
        /\ c \in DOMAIN result /\ ~Truthy(result[c]) /\ result[c] # PyNone
        /\ invoked[c] = 2

C5_FailureNeverReachesDisk ==
    error = "CommandError" => (pc = "failed" /\ fs = fs0 /\ disk = disk0)

\* A command raised after the store had moved away from the result file.
C5_Witness ==
    /\ error = "CommandError" /\ pc = "failed" /\ LoadedFile
    /\ EncodeDoc(result) # disk[OutFile]
    /\ \E c \in Registry : invoked[c] >= 1 /\ c \in DOMAIN result

\* C6 as stated. Unknown command: when the requested list contains a name that
\* is not in the registry, the run invokes no implementation, does not reach
\* the dump and leaves the filesystem untouched.
C6_UnknownCommandAborts ==
    (pc # "init" /\ \E k \in DOMAIN requested : requested[k] \notin Registry)
    => /\ \A c \in Registry : invoked[c] = 0
       /\ pc \notin {"save", "done"}
       /\ fs = fs0 /\ disk = disk0

\* C7 as stated. Idempotence: in a second run with force = false that follows
\* a run which got through all its commands, no implementation is invoked, the
\* run does not fail and the result file is left as it was.
C7_Idempotence ==
    (runNo = 2 /\ prevOk /\ ~force /\ pc # "init")
    => /\ \A c \in Registry : invoked[c] = 0
       /\ error = "none"
       /\ fs = fs0 /\ disk = disk0

\* C8 as stated. No-result elision: a returned None adds or changes no entry,
\* any other returned value is stored under the command's name.
C8_NoResultElision ==
    [][Returned =>
          IF ReturnedValue = PyNone THEN result' = result
          ELSE result' = Put(result, Top.cmd, ReturnedValue)]_vars

\* C8 amended. require stores whatever the implementation returned, None
\* included, under the command's name, and changes no other entry.
C8_ReturnedValueStored ==
    [][Returned =>
          /\ Top.cmd \in DOMAIN result'
          /\ result'[Top.cmd] = ReturnedValue
          /\ \A k \in DOMAIN result' \ {Top.cmd} : k \in DOMAIN result /\ result'[k] = result[k]
          /\ DOMAIN result \subseteq DOMAIN result']_vars

\* show returned None and the store gained an entry for it.
C8_Witness ==
    /\ pc \in {"loop", "save"}
    /\ invoked["show"] >= 1
    /\ "show" \in DOMAIN result /\ result["show"] = PyNone
    /\ ~(LoadedFile /\ "show" \in DOMAIN LoadedDoc)

\* C9 as stated. Dump produces the result file: when run reaches save_result
\* with an output path at which there is nothing or a regular file, the run
\* completes with a regular file at that path holding the serialized store.
C9_DumpProducesFile ==
    (pc \in {"done", "failed"} /\ commands # <<>> /\ i > Len(commands)
        /\ output_file # NoPath /\ fs0[output_file] \in {"none", "file"})
    => /\ pc = "done"
       /\ fs[output_file] = "file"
       /\ disk[output_file] = EncodeDoc(result)

----------------------------------------------------------------------------
\* Properties of the earlier Pipeline (SpecLegacy).

\* The path of the result file of the run.
ResultFile == get_result_file(output_file, configuration)

\* C4 as stated. Hash gate on load: when the result file exists and the
\* configuration it records differs from the current one, the run starts from
\* a store without any entry of the stale file.
C4_HashGate ==
    (pc = "loop" /\ i = 1 /\ fs0[ResultFile] = "file"
        /\ disk0[ResultFile]["configuration"] # json_encode(configuration))
    => DOMAIN result \subseteq {"configuration"}

\* The digest a configuration hashes to; equal configurations, and no others,
\* share it. It is named here by the keys that make the configuration.
ConfigurationHash(cfg) == <<"digest", cfg.v>>

\* The hash recorded in a configuration entry of a file: the entry the earlier
\* class writes is json.dump of the configuration dict, whose keys are a and
\* result_file, so it has a member hash only if a third key stands in it.
RecordedHashes(entry) ==
    IF entry.t = "object" /\ Len(entry.v) >= 3 THEN {entry.v[3]} ELSE {}

\* C10 as stated. Provenance block: a dumped result file holds the reserved
\* configuration entry, the hash in it is the configuration hash of the run
\* that wrote the file, and the file has one entry per executed command.
C10_ProvenanceBlock ==
    pc = "done" =>
        /\ fs[ResultFile] = "file"
        /\ "configuration" \in DOMAIN disk[ResultFile]
        /\ RecordedHashes(disk[ResultFile]["configuration"])
              = {ConfigurationHash(configuration)}
        /\ \A c \in Registry : invoked[c] >= 1 => c \in DOMAIN disk[ResultFile]

----------------------------------------------------------------------------
\* The run was started with no output path, or with nothing at the path.
MissingResultFile == IF output_file = NoPath THEN TRUE ELSE fs0[output_file] = "none"

\* C11: with the output path unset or no file at it, setup does not fail and
\* leaves an empty store, so nothing requested is found in a loaded store:
\* every command requested has been invoked, and a requested name that is no
\* command has raised KeyError.
C11_MissingFileIsEmptyStore ==
    (pc # "init" /\ error # "AssertionError" /\ MissingResultFile) =>
        /\ (error = "IOError" => i > Len(commands))
        /\ (calls = ZeroCount => result = EmptyStore /\ pc \in {"loop", "failed"})
        /\ \A c \in Names :
              calls[c] >= 1 => IF c \in available_commands THEN invoked[c] >= 1
                               ELSE error = "KeyError"

\* a run that found no file at its output path has executed foo
C11_Witness ==
    /\ output_file # NoPath
    /\ MissingResultFile
    /\ pc = "loop"
    /\ calls["foo"] = 1
    /\ invoked["foo"] = 1
    /\ "foo" \in DOMAIN result

\* C12: a run that gets through its commands with no output path ends in
\* save_result's ValueError, with no directory created and no file written.
C12_NoPathFailsBeforeWriting ==
    (pc \in {"done", "failed"} /\ output_file = NoPath /\ commands # <<>>
        /\ i > Len(commands)) =>
        /\ pc = "failed"
        /\ error = "ValueError"
        /\ fs = fs0
        /\ disk = disk0

\* foo was executed and save_result then found no path
C12_Witness ==
    /\ pc = "failed"
    /\ error = "ValueError"
    /\ output_file = NoPath
    /\ invoked["foo"] = 1
    /\ i > Len(commands)

\* A require call made by a command implementation has returned to it: the
\* frame that is on top afterwards has moved past one more of its requirements.
Resumed ==
    /\ stack # <<>>
    /\ stack' # <<>>
    /\ Len(stack') <= Len(stack)
    /\ stack'[Len(stack')].cmd = stack[Len(stack')].cmd
    /\ stack'[Len(stack')].k = stack[Len(stack')].k + 1

\* The command whose require call has just returned, in the state after.
Required == Deps(stack'[Len(stack')].cmd)[stack'[Len(stack')].k]

\* C13: when require(b) returns to the implementation of a, no frame of b is
\* left, b has an entry in the store and that entry is the value handed to a;
\* and when a's own value is stored, every command a requires has been
\* requested and has an entry.
C13_DependencyOrdering ==
    [][/\ Resumed =>
            /\ Required \in DOMAIN result'
            /\ retval' = result'[Required]
            /\ calls'[Required] >= 1
            /\ \A n \in DOMAIN stack' : stack'[n].cmd # Required
       /\ Returned =>
            \A n \in DOMAIN Deps(Top.cmd) :
                /\ Deps(Top.cmd)[n] \in DOMAIN result
                /\ calls[Deps(Top.cmd)[n]] >= 1]_vars

\* step2 has got the value of step1, executed on its behalf, and has not
\* returned yet
C13_Witness ==
    /\ stack = <<[cmd |-> "step2", k |-> 1]>>
    /\ invoked["step1"] = 1
    /\ "step1" \in DOMAIN result
    /\ retval = result["step1"]
    /\ "step2" \notin DOMAIN result

\* The implementation of c is being executed (RUNNING).
Running(c) == \E n \in DOMAIN stack : stack[n].cmd = c

\* c has been requested in this run and its require call has returned
\* (CACHED or COMPUTED).
Terminal(c) == calls[c] >= 1 /\ ~Running(c) /\ pc \in {"loop", "save", "done"}

Cycle ==
    {c \in Registry : \E n \in DOMAIN Deps(c) :
        \E m \in DOMAIN Deps(Deps(c)[n]) : Deps(Deps(c)[n])[m] = c}

\* c has no value that require would serve from the store
NoCachedValue(c) == force \/ c \notin DOMAIN result \/ ~Truthy(result[c])

\* C15: while a command of a cycle is being executed and no command of the
\* cycle has a cached value, every step either adds a nested execution of a
\* command of the cycle or ends the run with an exception; no frame returns,
\* the store and the filesystem stay as they are.
C15_NoCycleDetection ==
    [][((\E c \in Cycle : Running(c)) /\ (\A c \in Cycle : NoCachedValue(c))) =>
          /\ result' = result
          /\ fs' = fs
          /\ disk' = disk
          /\ \/ pc' = "failed"
             \/ /\ Len(stack') = Len(stack) + 1
                /\ stack'[Len(stack')].cmd \in Cycle
                /\ pc' = "loop"
                /\ i' = i]_vars

\* step1, step2 and step1 again are being executed, nested in each other
C15_Witness ==
    /\ Len(stack) >= 3
    /\ stack[1].cmd = "step1"
    /\ stack[2].cmd = "step2"
    /\ stack[3].cmd = "step1"
    /\ "step1" \notin DOMAIN result
    /\ "step2" \notin DOMAIN result

\* C16: show is a command of the pipeline; every require call for show
\* invokes run_show, whatever the store was loaded with; and when run_show
\* returns, the entries of the other commands are what they were.
C16_ShowAlwaysExecutes ==
    [][/\ "show" \in available_commands
       /\ Called("show") => invoked'["show"] = invoked["show"] + 1
       /\ (Returned /\ Top.cmd = "show") =>
             \A c \in (DOMAIN result \cup DOMAIN result') \ {"show"} :
                 c \in DOMAIN result /\ c \in DOMAIN result' /\ result'[c] = result[c]]_vars

\* C17: the durable encoding of a numeric array is a document, and decoding
\* that document yields an array of the same element type and shape with the
\* same elements in the same positions, for contiguous arrays and for views
\* that are not contiguous, with or without elements, in the machine's byte
\* order or not, alone or as the value of a store entry.
C17_ArrayRoundTrip ==
    (fnArg \in Arrays \cup StoredArrays) =>
        /\ fnOp = "json_dumps" => ~IsError(fnOut)
        /\ fnOp = "json_loads" => PyEq(fnOut, fnArg)

\* a transposed 2 x 2 array of big-endian integers whose rows differ from
\* its columns came back
C17_Witness ==
    /\ fnOp = "json_loads"
    /\ fnArg.t = "ndarray"
    /\ fnArg.v.dtype = np_dtype("i", 2, ">")
    /\ fnArg.v.layout = "T"
    /\ fnArg.v.base # Elements(fnArg.v)
    /\ fnOut.t = "ndarray"
    /\ fnOut.v.dtype = fnArg.v.dtype
    /\ fnOut.v.layout = "C"
    /\ fnOut.v.base = Elements(fnArg.v)

\* x is built only from None, numbers, booleans, strings, lists and dicts
RECURSIVE IsPlain(_)
IsPlain(x) ==
    \/ x.t \in {"NoneType", "int", "float", "bool", "str", "unicode"}
    \/ /\ x.t \in {"list", "dict"}
       /\ \A k \in DOMAIN x.v : IsPlain(x.v[k])

\* some dict within x has the key __ndarray__
RECURSIVE HasMarker(_)
HasMarker(x) ==
    /\ x.t \in {"list", "dict"}
    /\ \/ x.t = "dict" /\ "__ndarray__" \in DOMAIN x.v
       \/ \E k \in DOMAIN x.v : HasMarker(x.v[k])

\* x is NaN, or a byte string with a byte outside ASCII
IsNaN(x) == x.t = "float" /\ x.v[1] = 1
IsBytes(x) == x.t = "str" /\ \E n \in DOMAIN x.v : x.v[n] >= 1000

\* x holds a NaN or such a byte string
RECURSIVE HoldsInexact(_)
HoldsInexact(x) ==
    \/ IsNaN(x)
    \/ IsBytes(x)
    \/ /\ x.t \in {"list", "dict"}
       /\ \E k \in DOMAIN x.v : HoldsInexact(x.v[k])

\* the decoded value equals the encoded one, and a dict came back as a dict
\* with the same keys
RoundTripped ==
    /\ PyEq(fnOut, fnArg)
    /\ fnArg.t = "dict" => (fnOut.t = "dict" /\ DOMAIN fnOut.v = DOMAIN fnArg.v)

\* y is x as far as decoding keeps it: an array stands in place of every
\* dict that has the key __ndarray__, a NaN in place of a NaN, unicode text
\* that does not equal it in place of a byte string outside ASCII, and an
\* equal value everywhere else
RECURSIVE DecodedAs(_, _)
DecodedAs(y, x) ==
    IF x.t = "dict" /\ "__ndarray__" \in DOMAIN x.v THEN y.t = "ndarray"
    ELSE IF x.t \in {"list", "dict"}
    THEN /\ y.t = x.t
         /\ DOMAIN y.v = DOMAIN x.v
         /\ \A k \in DOMAIN x.v : DecodedAs(y.v[k], x.v[k])
    ELSE IF IsNaN(x) THEN IsNaN(y)
    ELSE IF IsBytes(x) THEN y.t = "unicode" /\ ~PyEq(y, x)
    ELSE PyEq(y, x)

\* C18 as stated: every value built from scalars, strings, booleans, lists
\* and string-keyed dicts is encoded to a document, and decoding the document
\* yields an equal value, whatever the keys are.
C18_StructuralRoundTrip ==
    IsPlain(fnArg) =>
        /\ fnOp = "json_dumps" => ~IsError(fnOut)
        /\ fnOp = "json_loads" => RoundTripped

\* C18: encoding such a value fails only with UnicodeDecodeError for a byte
\* string outside ASCII; decoding the document yields an equal value when
\* the value holds no dict with the key __ndarray__, no NaN and no byte
\* string outside ASCII; decoding fails only when some dict within the value
\* has the key __ndarray__, and otherwise yields the value with an array in
\* place of every such dict, a NaN for a NaN and unequal unicode text for a
\* byte string outside ASCII.
C18_RoundTripOfPlainValues ==
    IsPlain(fnArg) =>
        /\ (fnOp = "json_dumps" /\ IsError(fnOut)) =>
              (fnOut.v = "UnicodeDecodeError" /\ HoldsInexact(fnArg))
        /\ (fnOp = "json_loads" /\ ~HasMarker(fnArg) /\ ~HoldsInexact(fnArg)) => RoundTripped
        /\ (fnOp = "json_loads" /\ IsError(fnOut)) =>
              /\ HasMarker(fnArg)
              /\ fnOut.v \in {"TypeError", "KeyError", "ValueError", "UnicodeEncodeError"}
        /\ (fnOp = "json_loads" /\ ~IsError(fnOut)) => DecodedAs(fnOut, fnArg)

\* a dict holding a list of a string came back with the same key and the
\* string as unicode text
C18_Witness ==
    /\ fnOp = "json_loads"
    /\ fnArg.t = "dict"
    /\ DOMAIN fnArg.v = {"foo"}
    /\ fnArg.v["foo"].t = "list"
    /\ Len(fnArg.v["foo"].v) = 1
    /\ fnArg.v["foo"].v[1].t = "str"
    /\ fnOut.t = "dict"
    /\ fnOut.v["foo"].v[1].t = "unicode"
    /\ fnOut.v["foo"].v[1].v = Foo

\* x holds a value that json cannot encode by itself and that is no array
RECURSIVE HoldsUnsupported(_)
HoldsUnsupported(x) ==
    \/ x.t \in {"set", "object"}
    \/ /\ x.t \in {"list", "dict"}
       /\ \E k \in DOMAIN x.v : HoldsUnsupported(x.v[k])

\* the document d shows the value x: a text stands where x has a value json
\* cannot encode, an array with an item per item where x has a list, an
\* object with one member per key where x has a dict, and some JSON value
\* where x has anything else
RECURSIVE Shows(_, _)
Shows(d, x) ==
    CASE x.t \in {"set", "object"} -> d.t = "string" /\ d.v # <<>>
      [] x.t = "list" ->
            /\ d.t = "array"
            /\ Len(d.v) = Len(x.v)
            /\ \A n \in DOMAIN x.v : Shows(d.v[n], x.v[n])
      [] x.t = "dict" ->
            /\ d.t = "object"
            /\ Len(d.v) = Cardinality(DOMAIN x.v)
            /\ \A k \in DOMAIN x.v :
                  \E n \in DOMAIN d.v : d.v[n][1] = k /\ Shows(d.v[n][2], x.v[k])
      [] OTHER -> d.t \in {"null", "true", "false", "number", "string"}

\* C19: for a value that holds something neither JSON-primitive nor an array,
\* the durable encoder ends with an exception and produces no document, and
\* the display encoder ends with a document that shows the value, with a
\* text in place of what json cannot encode.
C19_DurableFailsDisplayPrints ==
    HoldsUnsupported(fnArg) =>
        /\ fnOp = "json_dumps" => IsError(fnOut)
        /\ fnOp # "json_loads"
        /\ fnOp = "display" => Shows(fnOut, fnArg)

\* the durable encoding of a store that holds a set has ended with an
\* exception
C19_Witness ==
    /\ fnOp = "json_dumps"
    /\ fnArg.t = "dict"
    /\ DOMAIN fnArg.v = Registry
    /\ fnArg.v["foo"].t = "set"
    /\ IsError(fnOut)
    /\ fnOut.v = "RuntimeError"

\* C20: the merge of a default mapping d and a loaded mapping o has exactly
\* the keys of d and o; for a key of o it holds the merge of d[k] and o[k]
\* when both are mappings and o[k] otherwise; for a key of d that o lacks it
\* holds d[k].
C20_RecursiveMerge ==
    fnOp = "recursive_update" =>
        LET d == fnArg[1].v
            o == fnArg[2].v
        IN  /\ fnOut.t = "dict"
            /\ DOMAIN fnOut.v = DOMAIN d \cup DOMAIN o
            /\ \A k \in DOMAIN o :
                  IF k \in DOMAIN d /\ d[k].t = "dict" /\ o[k].t = "dict"
                  THEN PyEq(fnOut.v[k], recursive_update(d[k], o[k]))
                  ELSE PyEq(fnOut.v[k], o[k])
            /\ \A k \in DOMAIN d \ DOMAIN o : PyEq(fnOut.v[k], d[k])

\* the default {a: {a: 1, b: 1}, b: 1} merged with the loaded {a: {a: 2}}
\* is {a: {a: 2, b: 1}, b: 1}
C20_Witness ==
    /\ fnOp = "recursive_update"
    /\ DOMAIN fnArg[1].v = {"a", "b"}
    /\ DOMAIN fnArg[2].v = {"a"}
    /\ fnArg[1].v["a"].t = "dict"
    /\ fnArg[2].v["a"].t = "dict"
    /\ DOMAIN fnArg[1].v["a"].v = {"a", "b"}
    /\ DOMAIN fnArg[2].v["a"].v = {"a"}
    /\ fnArg[1].v["a"].v["a"].t = "int"
    /\ fnArg[2].v["a"].v["a"].t = "int"
    /\ fnArg[1].v["a"].v["b"].t = "int"
    /\ fnArg[1].v["b"].t = "int"
    /\ fnOut.v["a"].v["a"] = PyInt(2)
    /\ fnOut.v["a"].v["b"] = PyInt(1)
    /\ fnOut.v["b"] = PyInt(1)

----------------------------------------------------------------------------
\* C29: in a run without force, a command whose implementation returns a
\* truthy value has been executed at most once, however often it was requested
\* at top level or required by other commands.
C29_AtMostOnce ==
    ~force =>
        \A c \in UserCommands :
            (impl[c] # Unset /\ Truthy(impl[c])) => invoked[c] <= 1

\* step1 returned a truthy value and was asked for twice, at top level and by
\* step2, and executed once
C29_Witness ==
    /\ ~force
    /\ commands = <<"step1", "step2">>
    /\ pc = "save"
    /\ Truthy(impl["step1"])
    /\ calls["step1"] = 2
    /\ invoked["step1"] = 1
    /\ invoked["step2"] = 1

C25_AbortOnFailure ==
    [][(error \in {"CommandError", "KeyError"}) =>
          (\/ pc' = "init"
           \/ /\ pc = "failed"
              /\ calls' = calls
              /\ invoked' = invoked
              /\ i' = i
              /\ result' = result
              /\ fs' = fs
              /\ disk' = disk)]_vars

\* foo, the first of two requested commands, raised: it was invoked once and
\* step1, requested after it, was neither looked up nor executed
C25_Witness ==
    /\ pc = "failed"
    /\ error = "CommandError"
    /\ commands = <<"foo", "step1">>
    /\ i = 1
    /\ invoked["foo"] = 1
    /\ calls["step1"] = 0
    /\ invoked["step1"] = 0

\* C24 as stated. Dump ordering: the filesystem is written only by the dump
\* that follows the last requested command, and when every requested command
\* has returned that dump leaves the result file holding the store, with an
\* entry for every command executed in the run.
C24_DumpOrdering ==
    [][/\ (fs' # fs \/ disk' # disk) => (pc = "save" /\ i > Len(commands))
       /\ (pc = "save" /\ output_file # NoPath /\ fs[output_file] \in {"none", "file"}) =>
             /\ pc' = "done"
             /\ fs'[output_file] = "file"
             /\ disk'[output_file] = EncodeDoc(result)
             /\ \A c \in Registry : invoked[c] >= 1 => c \in DOMAIN result]_vars

\* C26 as stated. Default command set: a run given an empty command list that
\* gets through its commands has made exactly one top-level request for every
\* command of the registry, show included, and has dumped the store.
C26_DefaultCommandSet ==
    (requested = <<>> /\ pc \in {"done", "failed"} /\ commands # <<>> /\ i > Len(commands)
        /\ output_file # NoPath /\ fs0[output_file] \in {"none", "file"})
    => /\ \A c \in Registry : Cardinality({k \in DOMAIN commands : commands[k] = c}) = 1
       /\ Len(commands) = Cardinality(Registry)
       /\ pc = "done"
       /\ fs[output_file] = "file"
       /\ disk[output_file] = EncodeDoc(result)

\* C22 as stated. Scoped configuration resolution: the lookup of the
\* configuration for a command ends with a mapping or with the fatal error for
\* a non-mapping (ValueError), for every configuration, including those whose
\* string values name each other.
C22_ScopedResolution ==
    fnOp = "_get_configuration" => (fnOut.t = "dict" \/ fnOut = Err("ValueError"))

----------------------------------------------------------------------------
\* Properties of the callback classes (SpecCallback).

\* the calls of the object, by 1-based index, during which the log got an entry
\* for c
CallsOf(c) == {cbLog[n].call : n \in {m \in DOMAIN cbLog : cbLog[m].cb = c}}

\* the entries made during call k that are calls of wrapped callbacks
RECURSIVE CallbacksDuring(_, _)
CallbacksDuring(log, k) ==
    IF log = <<>> THEN <<>>
    ELSE IF Head(log).call = k /\ Head(log).cb # "print"
         THEN <<Head(log)>> \o CallbacksDuring(Tail(log), k)
         ELSE CallbacksDuring(Tail(log), k)

\* C23 as stated. PeriodicCallback with period n >= 1: the wrapped callback has
\* been invoked on exactly those calls whose 1-based index is a multiple of n,
\* and a call that does not invoke it returns None.
C23_EveryNthCall ==
    (cbObj.cls = "PeriodicCallback" /\ cbObj.period >= 1) =>
        /\ CallsOf(cbObj.callbacks[1]) = {k \in 1..cbObj.count : k % cbObj.period = 0}
        /\ (cbObj.count >= 1 /\ cbObj.count % cbObj.period # 0) => fnOut = PyNone

\* C27: a call of a CallbackChain adds to the log one call of every chained
\* callback, in construction order, each with the argument of the call, and
\* returns the return_value given at construction when one was given, None
\* included, and otherwise what the last callback returned, or None for an
\* empty chain.
C27_CallbackChain ==
    [][(cbObj.cls = "CallbackChain" /\ cbObj'.count = cbObj.count + 1) =>
          /\ Len(cbLog') = Len(cbLog) + Len(cbObj.callbacks)
          /\ SubSeq(cbLog', 1, Len(cbLog)) = cbLog
          /\ \A n \in DOMAIN cbObj.callbacks :
                /\ cbLog'[Len(cbLog) + n].cb = cbObj.callbacks[n]
                /\ cbLog'[Len(cbLog) + n].arg = fnArg'
                /\ cbLog'[Len(cbLog) + n].call = cbObj'.count
          /\ fnOut' = IF cbObj.has_return_value THEN cbObj.return_value
                      ELSE IF cbObj.callbacks = <<>> THEN PyNone
                      ELSE CallbackResult(cbObj.callbacks[Len(cbObj.callbacks)], fnArg')]_vars

\* CallbackChain(f, g, return_value=None) was called once with 2: f and then g
\* were called with 2, and None was returned although g returned 22
C27_Witness ==
    /\ cbObj.cls = "CallbackChain"
    /\ cbObj.callbacks = <<"f", "g">>
    /\ cbObj.has_return_value
    /\ cbObj.return_value = PyNone
    /\ cbObj.count = 1
    /\ fnArg = PyInt(2)
    /\ Len(cbLog) = 2
    /\ cbLog[1].cb = "f"
    /\ cbLog[2].cb = "g"
    /\ CallbackResult("g", fnArg) = PyInt(22)
    /\ fnOut = PyNone

\* C28: after k calls of a ReportCallback its counter is k; it has printed
\* during exactly the calls whose 1-based index is a multiple of a non-zero
\* period, with that index as the iteration number; and during every call,
\* reporting or not, it has called every chained callback once, in order.
C28_ReportCallback ==
    cbObj.cls = "ReportCallback" =>
        /\ cbObj.current = cbObj.count
        /\ CallsOf("print") =
              {k \in 1..cbObj.count : cbObj.period # 0 /\ k % cbObj.period = 0}
        /\ \A n \in DOMAIN cbLog : cbLog[n].cb = "print" => cbLog[n].shown = cbLog[n].call
        /\ \A k \in 1..cbObj.count :
              LET made == CallbacksDuring(cbLog, k) IN
              /\ Len(made) = Len(cbObj.callbacks)
              /\ \A n \in DOMAIN made : made[n].cb = cbObj.callbacks[n]

\* ReportCallback(2, None, f, g) was called four times: it printed during the
\* second and the fourth call and called f and g during all four
C28_Witness ==
    /\ cbObj.cls = "ReportCallback"
    /\ cbObj.period = 2
    /\ cbObj.callbacks = <<"f", "g">>
    /\ cbObj.count = 4
    /\ CallsOf("print") = {2, 4}
    /\ CallsOf("f") = {1, 2, 3, 4}
    /\ Len(cbLog) = 10

----------------------------------------------------------------------------
\* Properties of the repetition loop of the earlier Pipeline (SpecRepeat).

\* the configured repeat count
Repeat == ConfiguredRepeat(configuration)

\* a repeat count is configured and the result file has the placeholder
Repeating == Repeat # PyNone /\ Placeholder(get_result_file(output_file, configuration))

\* the result file of repetition n
FileOf(n) == Replace(get_result_file(output_file, configuration), str(n))

\* the store of the current repetition was loaded from its file
RepetitionLoaded == pc = "load" /\ pc' = "loop"

\* the store of the current repetition was dumped
RepetitionDumped == pc = "save" /\ pc' \in {"load", "done"}

\* every entry of the store but the configuration was computed in the current
\* repetition or read from the file this repetition found at its own path
StoreIsolated ==
    \A c \in DOMAIN result \ {"configuration"} :
        \/ invoked[c] >= 1
        \/ /\ fs0[FileOf(repetition)] = "file"
           /\ c \in DOMAIN disk0[FileOf(repetition)]
           /\ result[c] = json_decode(disk0[FileOf(repetition)][c])

\* what repetitions do to the files and the store, for a run with a repeat
\* count and a placeholder: the store of a repetition is loaded from the file
\* at its own path as the run found it, or is empty, plus the configuration;
\* its dump writes its own file, which is the file of no earlier repetition,
\* and no other file; while its commands run the store holds no entry from
\* another repetition
RepetitionsIsolated ==
    /\ RepetitionLoaded =>
          result' = Put(IF fs0[FileOf(repetition)] = "file"
                        THEN DecodeDoc(disk0[FileOf(repetition)]) ELSE EmptyStore,
                        "configuration", configuration)
    /\ RepetitionDumped =>
          /\ fs'[FileOf(repetition)] = "file"
          /\ disk'[FileOf(repetition)] = EncodeDoc(result)
          /\ \A n \in 0..(repetition - 1) : FileOf(n) # FileOf(repetition)
          /\ \A p \in RepeatPaths \ {OutDir, FileOf(repetition)} :
                fs'[p] = fs[p] /\ disk'[p] = disk[p]
    /\ pc' \in {"loop", "save"} => StoreIsolated'

\* C21 as stated. Repetition isolation: with a repeat count R and a
\* placeholder in the result file, the repetitions are isolated from each
\* other and a run that ends has made R of them, 0..R-1, each writing its file.
C21_RepetitionIsolation ==
    [][Repeating =>
          /\ RepetitionsIsolated
          /\ pc' = "done" => repetition' + 1 = Repeat.v[1]]_vars

\* C21 amended. With a repeat count R >= 1 the run makes the repetitions
\* 0..R-1 and with R = 0 the single repetition 0; each repetition writes its
\* own file, distinct from the files of the others, starts from that file
\* only (or empty), and holds no entry computed in another repetition.
C21_RepetitionIsolationFromOne ==
    [][Repeating =>
          /\ RepetitionsIsolated
          /\ pc' = "done" => repetition' + 1 = (IF Repeat.v[1] = 0 THEN 1 ELSE Repeat.v[1])]_vars

\* a run with repeat = 2 has ended: repetition 0 found no file, repetition 1
\* the entry of step1 in its file; foo was computed in both, and the file of
\* repetition 0 holds nothing of repetition 1's file
C21_Witness ==
    /\ pc = "done"
    /\ Repeat = PyInt(2)
    /\ repetition = 1
    /\ requested = <<"foo">>
    /\ invoked["foo"] = 1
    /\ fs0[FileOf(0)] = "none"
    /\ fs0[FileOf(1)] = "file"
    /\ DOMAIN disk[FileOf(0)] = {"configuration", "foo"}
    /\ DOMAIN disk[FileOf(1)] = {"configuration", "foo", "step1"}

----------------------------------------------------------------------------
\* the entry of the store for c, Unset when there is none
StoreEntry(store, c) == IF c \in DOMAIN store THEN store[c] ELSE Unset

\* C31: from the require call for c until its implementation returns, the
\* entry of the store for c stays what it was, absent or a previous value; so
\* when the implementation raises, the store, the entry of c included, is left
\* as it is, and the commands the failing implementation had required by then
\* have their entries, with the newly computed value where they were executed.
C31_StoreUnchangedByFailure ==
    [][/\ \A c \in Registry :
             (Running(c) /\ ~(Returned /\ Top.cmd = c) /\ pc' # "init") =>
                 StoreEntry(result', c) = StoreEntry(result, c)
       /\ (stack # <<>> /\ error' = "CommandError") =>
             /\ result' = result
             /\ \A n \in 1..Top.k :
                   /\ Deps(Top.cmd)[n] \in DOMAIN result'
                   /\ invoked[Deps(Top.cmd)[n]] >= 1 =>
                         result'[Deps(Top.cmd)[n]] = impl[Deps(Top.cmd)[n]]]_vars

\* step2 raised after step1, which it requires, had been executed for it:
\* step2 has no entry, as before, and step1 has the value it returned
C31_Witness ==
    /\ pc = "failed"
    /\ error = "CommandError"
    /\ commands = <<"step2">>
    /\ invoked["step2"] = 1
    /\ invoked["step1"] = 1
    /\ impl["step1"] # Unset
    /\ "step1" \in DOMAIN result
    /\ result["step1"] = impl["step1"]
    /\ "step2" \notin DOMAIN result

----------------------------------------------------------------------------
\* the mappings at address x of the heap h1 and at address y of the heap h2
\* have the same value, nested mappings included
RECURSIVE SameValue(_, _, _, _)
SameValue(h1, x, h2, y) ==
    /\ DOMAIN h1[x] = DOMAIN h2[y]
    /\ \A k \in DOMAIN h1[x] :
          IF h1[x][k].t = "dict"
          THEN h2[y][k].t = "dict" /\ SameValue(h1, h1[x][k].v[1], h2, h2[y][k].v[1])
          ELSE h2[y][k] = h1[x][k]

\* C32 as stated. Merge does not alias its source: after recursive_update(d,
\* o1) and then recursive_update(d, o2), o1 and o2 have the values they had
\* before both calls.
C32_MergeDoesNotAlias ==
    fnOp = "recursive_update(d, o2)" =>
        /\ SameValue(heap, AddressOfO1, fnArg, AddressOfO1)
        /\ SameValue(heap, AddressOfO2, fnArg, AddressOfO2)

====
